---- MODULE Spec2Model ----
(***************************************************************************)
(* LibreDomains: reconciliation of the DNS records declared in request     *)
(* files against the records a DNS provider holds.                         *)
(*                                                                         *)
(* Domain names are sequences of labels (<<"a", "ex">> is a.ex), record    *)
(* contents are sequences of characters (<<"t", ".">> is "t."), so that     *)
(* split('.'), endswith('.' + parent) and rstrip('.') are computed, not    *)
(* assumed.  A Python dict with optional keys is a function whose DOMAIN    *)
(* holds the keys that are present.                                        *)
(***************************************************************************)
EXTENDS Integers, Sequences, FiniteSets, TLC

(***************************************************************************)
(* Bounds of the model.                                                    *)
(***************************************************************************)
\* desired record entries over all request files of one directory
MaxDesired == 2
\* records the provider holds at the start
MaxLive == 3
\* provider calls that fail in one behaviour
MaxFail == 1
\* runs of the program in one behaviour
MaxRuns == 2

\* records on one result page of a listing (100 in the source, scaled)
PerPage == 2

(***************************************************************************)
(* Python helpers.                                                         *)
(***************************************************************************)
\* dict.get(key, default)
Get(d, key, default) == IF key \in DOMAIN d THEN d[key] ELSE default

\* dict.get(key) == dict.get(key): None equals only None
GetEq(a, b, key) ==
    IF key \in DOMAIN a
    THEN key \in DOMAIN b /\ a[key] = b[key]
    ELSE key \notin DOMAIN b

\* mutant: trailing dots are kept
rstrip_keeps(s) == s

\* str.rstrip('.')
RECURSIVE rstrip(_)
rstrip(s) ==
    IF Len(s) > 0 /\ s[Len(s)] = "." THEN rstrip(SubSeq(s, 1, Len(s) - 1)) ELSE s

\* str.upper() on the record types that occur
upper(t) ==
    CASE t = "a" -> "A"
      [] t = "cname" -> "CNAME"
      [] t = "mx" -> "MX"
      [] t = "ns" -> "NS"
      [] OTHER -> t

\* mutant: every name counts as a subdomain of the parent
EndsWithDot_any(full, parent) == TRUE

\* full.endswith("." + parent): the labels of parent end full, after a dot
EndsWithDot(full, parent) ==
    /\ Len(full) > Len(parent)
    /\ SubSeq(full, Len(full) - Len(parent) + 1, Len(full)) = parent

Range(s) == {s[i] : i \in 1..Len(s)}

(***************************************************************************)
(* The domain registry (domains/available_domains.json).                   *)
(***************************************************************************)
Placeholder == "YOUR_CLOUDFLARE_ZONE_ID"
None == "None"

DomainsConfig ==
    << [name |-> <<"ex">>, enabled |-> TRUE, zoneId |-> "z1"],
       [name |-> <<"org">>, enabled |-> TRUE, zoneId |-> "z2"],
       [name |-> <<"off">>, enabled |-> FALSE, zoneId |-> "z3"] >>

Zones == {DomainsConfig[i].zoneId : i \in 1..Len(DomainsConfig)}

\* mutant: the enabled flag of the registry entry is not looked at
RECURSIVE get_zone_id_from_any(_, _)
get_zone_id_from_any(domain_name, i) ==
    IF i > Len(DomainsConfig) THEN None
    ELSE IF DomainsConfig[i].name = domain_name THEN DomainsConfig[i].zoneId
    ELSE get_zone_id_from_any(domain_name, i + 1)

RECURSIVE get_zone_id_from(_, _)
get_zone_id_from(domain_name, i) ==
    IF i > Len(DomainsConfig) THEN None
    ELSE LET domain_entry == DomainsConfig[i] IN
         IF domain_entry.name = domain_name
         THEN IF ~Get(domain_entry, "enabled", FALSE) THEN None
              ELSE IF "zoneId" \notin DOMAIN domain_entry
                      \/ domain_entry.zoneId = Placeholder THEN None
              ELSE domain_entry.zoneId
         ELSE get_zone_id_from(domain_name, i + 1)

get_zone_id(domain_name) == get_zone_id_from(domain_name, 1)

(***************************************************************************)
(* Step 1 of main: the desired state compiled from the request files.      *)
(* A request directory is a function from file names (without ".json",     *)
(* as label sequences) to documents; a document that failed to load is     *)
(* the empty function.                                                     *)
(***************************************************************************)
\* os.listdir order of the request files
FileOrder ==
    << <<"a", "ex">>, <<"x">>, <<"b", "ex">>, <<"c", "org">>, <<"d", "off">>,
       <<"e", "no">>, <<"@", "ex">> >>

\* cf_api_record of one record entry
cf_api_record(record_entry, full_domain_name) ==
    LET type == upper(record_entry["type"])
        base == [type |-> type, name |-> full_domain_name,
                 content |-> record_entry["value"],
                 ttl |-> Get(record_entry, "ttl", 1)]
        prio == IF "priority" \in DOMAIN record_entry /\ type = "MX"
                THEN ("priority" :> record_entry["priority"]) ELSE << >>
        prox == IF "proxied" \in DOMAIN record_entry /\ type \in {"A", "AAAA", "CNAME"}
                THEN ("proxied" :> record_entry["proxied"]) ELSE << >>
    IN  prox @@ prio @@ base

\* mutant: one malformed entry rejects all the entries of the document
doc_records_all_or_nothing(records, full_domain_name, i) ==
    IF \E k \in 1..Len(records) : ~({"type", "value"} \subseteq DOMAIN records[k])
    THEN << >>
    ELSE [k \in 1..Len(records) |-> cf_api_record(records[k], full_domain_name)]

\* the records of one document, malformed entries skipped
RECURSIVE doc_records(_, _, _)
doc_records(records, full_domain_name, i) ==
    IF i > Len(records) THEN << >>
    ELSE (IF {"type", "value"} \subseteq DOMAIN records[i]
          THEN <<cf_api_record(records[i], full_domain_name)>>
          ELSE << >>) \o doc_records(records, full_domain_name, i + 1)

\* index of the zone in the desired state, 0 when absent
ZoneIndex(ds, zone_id) ==
    IF \E i \in 1..Len(ds) : ds[i].zone_id = zone_id
    THEN CHOOSE i \in 1..Len(ds) : ds[i].zone_id = zone_id
    ELSE 0

\* mutant: a skipped request file still enters its name, with no records, into
\* the first zone of the desired state
add_file_keeps_name(ds, dir, filename) ==
    LET record_def == dir[filename]
        parent_domain_name == SubSeq(filename, 2, Len(filename))
        zone_id == get_zone_id(parent_domain_name)
        zi == ZoneIndex(ds, zone_id)
    IN  IF {"records", "owner"} \subseteq DOMAIN record_def
           /\ Len(filename) >= 2
           /\ zone_id # None
        THEN LET managed == [name |-> filename,
                             records |-> doc_records(record_def["records"], filename, 1)]
             IN  IF zi = 0
                 THEN Append(ds, [zone_id |-> zone_id, domain_name |-> parent_domain_name,
                                  records_to_manage |-> <<managed>>])
                 ELSE [ds EXCEPT ![zi].records_to_manage = Append(@, managed)]
        ELSE IF ds = << >> THEN ds
             ELSE [ds EXCEPT ![1].records_to_manage =
                                 Append(@, [name |-> filename, records |-> << >>])]

\* desired_state after the request file `filename` is read
add_file(ds, dir, filename) ==
    LET record_def == dir[filename]
        subdomain_part == filename[1]
        parent_domain_name == SubSeq(filename, 2, Len(filename))
        full_domain_name == <<subdomain_part>> \o parent_domain_name
        zone_id == get_zone_id(parent_domain_name)
        managed == [name |-> full_domain_name,
                    records |-> doc_records(record_def["records"], full_domain_name, 1)]
        zi == ZoneIndex(ds, zone_id)
    IN  IF {"records", "owner"} \subseteq DOMAIN record_def
           /\ Len(filename) >= 2
           /\ zone_id # None
        THEN IF zi = 0
             THEN Append(ds, [zone_id |-> zone_id, domain_name |-> parent_domain_name,
                              records_to_manage |-> <<managed>>])
             ELSE [ds EXCEPT ![zi].records_to_manage = Append(@, managed)]
        ELSE ds

RECURSIVE compile_from(_, _, _)
compile_from(ds, dir, i) ==
    IF i > Len(FileOrder) THEN ds
    ELSE compile_from(IF FileOrder[i] \in DOMAIN dir
                      THEN add_file(ds, dir, FileOrder[i]) ELSE ds,
                      dir, i + 1)

compile_desired(dir) == compile_from(<< >>, dir, 1)

(***************************************************************************)
(* Step 2 of main: matching one desired record against the live records.   *)
(***************************************************************************)
\* mutant: the priority of an MX record is not part of the content comparison
content_match_ignores_priority(cf_rec, desired_rec_data) ==
    /\ cf_rec["type"] = desired_rec_data["type"]
    /\ \/ /\ cf_rec["type"] = "CNAME"
          /\ rstrip(cf_rec["content"]) = rstrip(desired_rec_data["content"])
       \/ /\ cf_rec["type"] # "CNAME"
          /\ cf_rec["content"] = desired_rec_data["content"]

\* the type-specific content comparison of the reconciliation loop
content_match(cf_rec, desired_rec_data) ==
    /\ cf_rec["type"] = desired_rec_data["type"]
    /\ \/ /\ cf_rec["type"] = "CNAME"
          /\ rstrip(cf_rec["content"]) = rstrip(desired_rec_data["content"])
       \/ /\ cf_rec["type"] = "MX"
          /\ cf_rec["content"] = desired_rec_data["content"]
          /\ GetEq(cf_rec, desired_rec_data, "priority")
       \/ /\ cf_rec["type"] \notin {"CNAME", "MX"}
          /\ cf_rec["content"] = desired_rec_data["content"]

\* mutant: a live record without proxied key counts as proxied
proxy_match_default_true(cf_rec, desired_rec_data) ==
    IF desired_rec_data["type"] \in {"A", "AAAA", "CNAME"}
    THEN Get(cf_rec, "proxied", TRUE) = Get(desired_rec_data, "proxied", FALSE)
    ELSE TRUE

\* proxy_match of the reconciliation loop
proxy_match(cf_rec, desired_rec_data) ==
    IF desired_rec_data["type"] \in {"A", "AAAA", "CNAME"}
    THEN Get(cf_rec, "proxied", FALSE) = Get(desired_rec_data, "proxied", FALSE)
    ELSE TRUE

\* cf_records_by_name.get(full_domain_name, [])
current_for(cf_list, full_domain_name) ==
    SelectSeq(cf_list, LAMBDA rec : rec["name"] = full_domain_name)

\* "if cf_rec["id"] in processed_cf_ids: continue" of the matching loop
already_dealt_with(cf_rec, processed) == cf_rec["id"] \in processed

\* mutant: the stale loop deletes every live record of the name
unmatched_all(cf_rec, processed) == TRUE

\* "if cf_rec["id"] not in processed_cf_ids" of the stale loop
unmatched(cf_rec, processed) == cf_rec["id"] \notin processed

\* the first live record, from position i on, that is not yet processed and whose
\* content matches: its index, 0 when there is none
RECURSIVE first_match(_, _, _, _)
first_match(cur, desired_rec_data, processed, i) ==
    IF i > Len(cur) THEN 0
    ELSE IF ~already_dealt_with(cur[i], processed) /\ content_match(cur[i], desired_rec_data)
         THEN i
         ELSE first_match(cur, desired_rec_data, processed, i + 1)

\* the names of cf_records_by_name, in insertion order
RECURSIVE names_in_order(_, _)
names_in_order(cf_list, i) ==
    IF i > Len(cf_list) THEN << >>
    ELSE LET rest == names_in_order(cf_list, i + 1) IN
         <<cf_list[i]["name"]>> \o SelectSeq(rest, LAMBDA n : n # cf_list[i]["name"])

\* the records of cf_records_by_name.items(), flattened in iteration order
RECURSIVE grouped_from(_, _, _)
grouped_from(cf_list, names, i) ==
    IF i > Len(names) THEN << >>
    ELSE current_for(cf_list, names[i]) \o grouped_from(cf_list, names, i + 1)

grouped(cf_list) == grouped_from(cf_list, names_in_order(cf_list, 1), 1)

\* mutant: a request file without owner or records counts as removed
removed_subdomain_or_skipped(rec, parent_domain, dir) ==
    /\ EndsWithDot(rec["name"], parent_domain)
    /\ \/ rec["name"] \notin DOMAIN dir
       \/ ~({"records", "owner"} \subseteq DOMAIN dir[rec["name"]])

\* Step 3: the records of a name are deleted when the name is below the parent
\* domain and no request file of that name exists
removed_subdomain(rec, parent_domain, dir) ==
    /\ EndsWithDot(rec["name"], parent_domain)
    /\ rec["name"] \notin DOMAIN dir

(***************************************************************************)
(* The provider: records per zone, in listing order.                       *)
(***************************************************************************)
HasId(recs, id) == \E i \in 1..Len(recs) : recs[i]["id"] = id

provider_create(recs, id, record_data) == Append(recs, ("id" :> id) @@ record_data)

provider_update(recs, id, record_data) ==
    [i \in 1..Len(recs) |->
        IF recs[i]["id"] = id THEN ("id" :> id) @@ record_data ELSE recs[i]]

provider_delete(recs, id) == SelectSeq(recs, LAMBDA rec : rec["id"] # id)

\* result_info.total_pages of a listing
total_pages(recs) ==
    IF Len(recs) = 0 THEN 1 ELSE (Len(recs) + PerPage - 1) \div PerPage

\* data["result"] of GET zones/{zone_id}/dns_records for one page
page_result(recs, page) ==
    SubSeq(recs, (page - 1) * PerPage + 1,
           IF page * PerPage < Len(recs) THEN page * PerPage ELSE Len(recs))

\* get_existing_dns_records from page `page` on, with the pages read so far;
\* the request of page fail_at fails (0: none fails) and the result is None
RECURSIVE get_existing_dns_records(_, _, _, _)
get_existing_dns_records(recs, all_records, page, fail_at) ==
    IF page = fail_at THEN [ok |-> FALSE, records |-> << >>]
    ELSE LET extended == all_records \o page_result(recs, page) IN
         IF page >= total_pages(recs) THEN [ok |-> TRUE, records |-> extended]
         ELSE get_existing_dns_records(recs, extended, page + 1, fail_at)

\* the result of one GET zones/{zone_id}/dns_records without a page parameter
first_page(recs) == page_result(recs, 1)

(***************************************************************************)
(* State.                                                                  *)
(***************************************************************************)
VARIABLES
    files,              \* the request directory
    live,               \* the provider's records, per zone
    nextId,             \* the id the provider gives the next created record
    desired_state,      \* main: the compiled desired state
    cf_records_list,    \* main: the listing of the zone being processed
    processed_cf_ids,   \* main: ids matched or updated for the current name
    overall_success,    \* main: the failure flag
    loc,                \* position in the program
    run,                \* number of the current run
    fails,              \* provider calls that failed so far
    trace,              \* history: outcomes and provider calls, in order
    live0,              \* history: the provider's records when the run started
    sync_args,          \* sync_domain_records: domain, subdomain, records
    existing_map,       \* sync_domain_records: the live records by "type:name"
    result,             \* sync_domain_records: the result dict
    request_data,       \* DNSDeployer: the request file that is deployed or deleted
    existing_records,   \* DNSDeployer: the listing of the full domain name
    returned,           \* DNSDeployer: the value deploy_request / delete_request returns
    domain_files,       \* DNSDeployer: the local record files under domains/
    owners              \* the request pipelines: position, request file, results

main_vars == <<files, desired_state, cf_records_list, processed_cf_ids, overall_success>>
sync_vars == <<sync_args, existing_map, result>>
deploy_vars == <<request_data, existing_records, returned, domain_files>>
owner_vars == <<owners>>

vars == <<files, live, nextId, desired_state, cf_records_list, processed_cf_ids,
          overall_success, loc, run, fails, trace, live0, sync_vars, deploy_vars,
          owner_vars>>

Pos(pc, zi, ni, di, si, k) == [pc |-> pc, zi |-> zi, ni |-> ni, di |-> di, si |-> si, k |-> k]

\* a provider call may fail while the failure budget lasts
Outcomes == IF fails < MaxFail THEN {TRUE, FALSE} ELSE {TRUE}

Ev(op, zone, rec_name, id, key, ok) ==
    [run |-> run, op |-> op, zone |-> zone, name |-> rec_name, id |-> id,
     key |-> key, ok |-> ok]

(***************************************************************************)
(* Control flow of main: the next position at which a provider call or a   *)
(* match is made, from a loop position p; loops that have nothing left are *)
(* left, live records in processed_cf_ids are passed over.                 *)
(***************************************************************************)
\* mutant: the loop over the desired records of a name stops one record early
more_desired_stops_early(di, records) == di < Len(records)

\* "for desired_rec_data in desired_records_for_subdomain": a record is left
more_desired(di, records) == di <= Len(records)

\* mutant: Step 3 runs inside the loop over the managed names, after each name
RECURSIVE Norm_step3_in_loop(_, _, _, _, _)
Norm_step3_in_loop(p, processed, ds, cf_list, dir) ==
    CASE p.pc = "zone" ->
            IF p.zi <= Len(ds) THEN [loc |-> p, processed |-> {}]
            ELSE [loc |-> Pos("done", 0, 0, 0, 0, 0), processed |-> {}]
      [] p.pc = "desired" ->
            IF more_desired(p.di, ds[p.zi].records_to_manage[p.ni].records)
            THEN [loc |-> p, processed |-> processed]
            ELSE Norm_step3_in_loop(Pos("stale", p.zi, p.ni, 0, 1, 0), processed, ds, cf_list, dir)
      [] p.pc = "stale" ->
            LET cur == current_for(cf_list, ds[p.zi].records_to_manage[p.ni].name) IN
            IF p.si > Len(cur)
            THEN Norm_step3_in_loop(Pos("step3", p.zi, p.ni, 0, 0, 1), {}, ds, cf_list, dir)
            ELSE IF ~unmatched(cur[p.si], processed)
                 THEN Norm_step3_in_loop(Pos("stale", p.zi, p.ni, 0, p.si + 1, 0), processed,
                                         ds, cf_list, dir)
                 ELSE [loc |-> p, processed |-> processed]
      [] p.pc = "step3" ->
            LET g == grouped(cf_list) IN
            IF p.k > Len(g)
            THEN IF p.ni < Len(ds[p.zi].records_to_manage)
                 THEN Norm_step3_in_loop(Pos("desired", p.zi, p.ni + 1, 1, 0, 0), {}, ds,
                                         cf_list, dir)
                 ELSE Norm_step3_in_loop(Pos("zone", p.zi + 1, 0, 0, 0, 0), {}, ds, cf_list, dir)
            ELSE IF removed_subdomain(g[p.k], ds[p.zi].domain_name, dir)
                 THEN [loc |-> p, processed |-> {}]
                 ELSE Norm_step3_in_loop(Pos("step3", p.zi, p.ni, 0, 0, p.k + 1), {}, ds,
                                         cf_list, dir)
      [] OTHER -> [loc |-> p, processed |-> processed]

RECURSIVE Norm(_, _, _, _, _)
Norm(p, processed, ds, cf_list, dir) ==
    CASE p.pc = "zone" ->
            IF p.zi <= Len(ds) THEN [loc |-> p, processed |-> {}]
            ELSE [loc |-> Pos("done", 0, 0, 0, 0, 0), processed |-> {}]
      [] p.pc = "desired" ->
            IF more_desired(p.di, ds[p.zi].records_to_manage[p.ni].records)
            THEN [loc |-> p, processed |-> processed]
            ELSE Norm(Pos("stale", p.zi, p.ni, 0, 1, 0), processed, ds, cf_list, dir)
      [] p.pc = "stale" ->
            LET cur == current_for(cf_list, ds[p.zi].records_to_manage[p.ni].name) IN
            IF p.si > Len(cur)
            THEN IF p.ni < Len(ds[p.zi].records_to_manage)
                 THEN Norm(Pos("desired", p.zi, p.ni + 1, 1, 0, 0), {}, ds, cf_list, dir)
                 ELSE Norm(Pos("step3", p.zi, 0, 0, 0, 1), {}, ds, cf_list, dir)
            ELSE IF ~unmatched(cur[p.si], processed)
                 THEN Norm(Pos("stale", p.zi, p.ni, 0, p.si + 1, 0), processed, ds, cf_list, dir)
                 ELSE [loc |-> p, processed |-> processed]
      [] p.pc = "step3" ->
            LET g == grouped(cf_list) IN
            IF p.k > Len(g)
            THEN Norm(Pos("zone", p.zi + 1, 0, 0, 0, 0), {}, ds, cf_list, dir)
            ELSE IF removed_subdomain(g[p.k], ds[p.zi].domain_name, dir)
                 THEN [loc |-> p, processed |-> {}]
                 ELSE Norm(Pos("step3", p.zi, 0, 0, 0, p.k + 1), {}, ds, cf_list, dir)
      [] OTHER -> [loc |-> p, processed |-> processed]

(***************************************************************************)
(* Actions of main.                                                        *)
(***************************************************************************)
\* Step 1: compile the desired state; nothing to sync ends the run
Compile ==
    /\ loc.pc = "start"
    /\ LET ds == compile_desired(files) IN
         /\ desired_state' = ds
         /\ loc' = IF ds = << >> THEN Pos("done", 0, 0, 0, 0, 0)
                   ELSE Pos("zone", 1, 0, 0, 0, 0)
    /\ overall_success' = TRUE
    /\ live0' = live
    /\ UNCHANGED <<files, live, nextId, cf_records_list, processed_cf_ids, run, fails, trace>>
    /\ UNCHANGED <<sync_vars, deploy_vars, owner_vars>>

\* get_existing_dns_records of the next zone: the records of all its pages, or
\* None when the request of one page fails
FetchZone ==
    /\ loc.pc = "zone"
    /\ LET zone_id == desired_state[loc.zi].zone_id IN
       \E fail_at \in {0} \cup (IF FALSE \in Outcomes
                                THEN 1..total_pages(live[zone_id]) ELSE {}) :
         LET got == get_existing_dns_records(live[zone_id], << >>, 1, fail_at)
             ok == got.ok
         IN
         /\ trace' = Append(trace, Ev("list", zone_id, << >>, 0, <<loc.zi, 0, 0>>, ok))
         /\ fails' = IF ok THEN fails ELSE fails + 1
         /\ IF ok
            THEN LET n == Norm(Pos("desired", loc.zi, 1, 1, 0, 0), {}, desired_state,
                               got.records, files) IN
                 /\ cf_records_list' = got.records
                 /\ loc' = n.loc
                 /\ processed_cf_ids' = n.processed
                 /\ UNCHANGED overall_success
            ELSE /\ cf_records_list' = << >>
                 /\ loc' = Norm(Pos("zone", loc.zi + 1, 0, 0, 0, 0), {}, desired_state,
                                << >>, files).loc
                 /\ processed_cf_ids' = {}
                 /\ overall_success' = FALSE
    /\ UNCHANGED <<files, live, nextId, desired_state, run, live0, sync_vars, deploy_vars, owner_vars>>

\* one desired record: unchanged, update of the content match, or create
ProcessDesired ==
    /\ loc.pc = "desired"
    /\ LET zone_id == desired_state[loc.zi].zone_id
           managed == desired_state[loc.zi].records_to_manage[loc.ni]
           desired_rec_data == managed.records[loc.di]
           cur == current_for(cf_records_list, managed.name)
           m == first_match(cur, desired_rec_data, processed_cf_ids, 1)
           key == <<loc.zi, loc.ni, loc.di>>
           after == Pos("desired", loc.zi, loc.ni, loc.di + 1, 0, 0)
       IN
       IF m = 0
       THEN \E ok \in Outcomes :
              /\ trace' = Append(trace, Ev("create", zone_id, managed.name, 0, key, ok))
              /\ fails' = IF ok THEN fails ELSE fails + 1
              /\ live' = IF ok
                         THEN [live EXCEPT ![zone_id] = provider_create(@, nextId, desired_rec_data)]
                         ELSE live
              /\ nextId' = IF ok THEN nextId + 1 ELSE nextId
              /\ overall_success' = (overall_success /\ ok)
              /\ LET n == Norm(after, processed_cf_ids, desired_state, cf_records_list, files) IN
                   /\ loc' = n.loc
                   /\ processed_cf_ids' = n.processed
       ELSE IF proxy_match(cur[m], desired_rec_data)
       THEN /\ trace' = Append(trace, Ev("unchanged", zone_id, managed.name, cur[m]["id"], key, TRUE))
            /\ LET n == Norm(after, processed_cf_ids \cup {cur[m]["id"]}, desired_state,
                             cf_records_list, files) IN
                 /\ loc' = n.loc
                 /\ processed_cf_ids' = n.processed
            /\ UNCHANGED <<live, nextId, overall_success, fails>>
       ELSE \E ok \in (IF HasId(live[zone_id], cur[m]["id"]) THEN Outcomes ELSE {FALSE}) :
              /\ trace' = Append(trace, Ev("update", zone_id, managed.name, cur[m]["id"], key, ok))
              /\ fails' = IF ok THEN fails ELSE fails + 1
              /\ live' = IF ok
                         THEN [live EXCEPT ![zone_id] = provider_update(@, cur[m]["id"], desired_rec_data)]
                         ELSE live
              /\ overall_success' = (overall_success /\ ok)
              /\ LET n == Norm(after,
                               IF ok THEN processed_cf_ids \cup {cur[m]["id"]}
                               ELSE processed_cf_ids,
                               desired_state, cf_records_list, files) IN
                   /\ loc' = n.loc
                   /\ processed_cf_ids' = n.processed
              /\ UNCHANGED nextId
    /\ UNCHANGED <<files, desired_state, cf_records_list, run, live0, sync_vars, deploy_vars, owner_vars>>

\* a provider delete of the record `rec`, then on to position `after`
DeleteCall(rec, zone_id, key, after) ==
    \E ok \in (IF HasId(live[zone_id], rec["id"]) THEN Outcomes ELSE {FALSE}) :
      /\ trace' = Append(trace, Ev("delete", zone_id, rec["name"], rec["id"], key, ok))
      /\ fails' = IF ok THEN fails ELSE fails + 1
      /\ live' = IF ok THEN [live EXCEPT ![zone_id] = provider_delete(@, rec["id"])] ELSE live
      /\ overall_success' = (overall_success /\ ok)
      /\ LET n == Norm(after, processed_cf_ids, desired_state, cf_records_list, files) IN
           /\ loc' = n.loc
           /\ processed_cf_ids' = n.processed
      /\ UNCHANGED <<files, nextId, desired_state, cf_records_list, run, live0,
                     sync_vars, deploy_vars, owner_vars>>

\* delete an unmatched live record of the current name
DeleteStale ==
    /\ loc.pc = "stale"
    /\ LET managed == desired_state[loc.zi].records_to_manage[loc.ni]
           cur == current_for(cf_records_list, managed.name)
       IN  DeleteCall(cur[loc.si], desired_state[loc.zi].zone_id, <<loc.zi, loc.ni, 0>>,
                      Pos("stale", loc.zi, loc.ni, 0, loc.si + 1, 0))

\* Step 3: delete a record of a subdomain whose request file is gone
DeleteRemoved ==
    /\ loc.pc = "step3"
    /\ DeleteCall(grouped(cf_records_list)[loc.k], desired_state[loc.zi].zone_id,
                  <<loc.zi, 0, 0>>, Pos("step3", loc.zi, loc.ni, 0, 0, loc.k + 1))

\* the workflow runs main again after a run that exited 0 (a run that exits 1
\* fails the workflow, and the behaviour ends there)
Rerun ==
    /\ loc.pc = "done"
    /\ run < MaxRuns
    /\ overall_success
    /\ run' = run + 1
    /\ loc' = Pos("start", 0, 0, 0, 0, 0)
    /\ desired_state' = << >>
    /\ cf_records_list' = << >>
    /\ processed_cf_ids' = {}
    /\ overall_success' = TRUE
    /\ UNCHANGED <<files, live, nextId, fails, trace, live0, sync_vars, deploy_vars, owner_vars>>

Next == Compile \/ FetchZone \/ ProcessDesired \/ DeleteStale \/ DeleteRemoved \/ Rerun

(***************************************************************************)
(* Initial states: a request directory and the records the provider holds. *)
(* Two families: (a) up to MaxDesired entries and MaxLive live records of  *)
(* type A spread over several files, names and zones; (b) one entry and    *)
(* one live record at one name, over all record types and attributes.      *)
(***************************************************************************)
SeqsUpTo(S, n) == UNION {[1..k -> S] : k \in 0..n}

IndexIn(s, x) == CHOOSE i \in 1..Len(s) : s[i] = x

Sorted(s, order) ==
    \A i \in 1..Len(s) : \A j \in 1..Len(s) :
        i < j => IndexIn(order, s[i].at) <= IndexIn(order, s[j].at)

\* the names that live records carry: managed names, a name without request
\* file, a parent domain itself
LiveNames == << <<"a", "ex">>, <<"g", "ex">>, <<"ex">>, <<"c", "org">> >>

ZoneOfName(n) ==
    CASE n[Len(n)] = "org" -> "z2"
      [] n[Len(n)] = "off" -> "z3"
      [] OTHER -> "z1"

SimpleEntries ==
    {[type |-> "A", value |-> <<"t">>],
     ("proxied" :> TRUE) @@ [type |-> "A", value |-> <<"t">>]}

SimpleLive ==
    {[type |-> "A", content |-> <<"t">>, ttl |-> 1, proxied |-> p] : p \in BOOLEAN}

\* optional keys: the functions from a subset of the optional keys to their values
Optional(key, values) == {<< >>} \cup {(key :> v) : v \in values}

RichEntries ==
    {o1 @@ o2 @@ [type |-> "A", value |-> v] :
        v \in {<<"t">>, <<"u">>}, o1 \in Optional("proxied", BOOLEAN),
        o2 \in Optional("ttl", {300})}
    \cup
    {o1 @@ [type |-> "CNAME", value |-> v] :
        v \in {<<"t">>, <<"t", ".">>, <<"T">>}, o1 \in Optional("proxied", {TRUE})}
    \cup
    {o1 @@ [type |-> "MX", value |-> v] :
        v \in {<<"t">>, <<"t", ".">>}, o1 \in Optional("priority", {10, 20})}
    \cup
    {[type |-> "ns", value |-> <<"t">>]}

RichLive ==
    {o1 @@ [type |-> "A", content |-> v, ttl |-> t] :
        v \in {<<"t">>, <<"u">>}, o1 \in Optional("proxied", BOOLEAN), t \in {1, 300}}
    \cup
    {[type |-> "CNAME", content |-> v, ttl |-> 1, proxied |-> p] :
        v \in {<<"t">>, <<"t", ".">>}, p \in BOOLEAN}
    \cup
    {[type |-> "MX", content |-> v, ttl |-> 1, priority |-> q] :
        v \in {<<"t">>, <<"t", ".">>}, q \in {10, 20}}

\* the directory with the files S, holding the picked entries
Directory(S, picks) ==
    [f \in S |->
        [owner |-> "u",
         records |-> LET mine == SelectSeq(picks, LAMBDA p : p.at = f)
                     IN  [i \in 1..Len(mine) |-> mine[i].what]]]

\* the provider's records of zone z: the picked records, ids by position
RECURSIVE Held(_, _, _)
Held(picks, z, i) ==
    IF i > Len(picks) THEN << >>
    ELSE (IF ZoneOfName(picks[i].at) = z
          THEN <<("id" :> i) @@ ("name" :> picks[i].at) @@ picks[i].what>>
          ELSE << >>) \o Held(picks, z, i + 1)

\* the provider and the history at the start of a program
InitProvider ==
    /\ nextId = 1 + Len(live["z1"]) + Len(live["z2"]) + Len(live["z3"])
    /\ run = 1
    /\ fails = 0
    /\ trace = << >>
    /\ live0 = live

\* the variables of a program that does not run
NoMain ==
    /\ files = << >>
    /\ desired_state = << >>
    /\ cf_records_list = << >>
    /\ processed_cf_ids = {}
    /\ overall_success = TRUE

NoSync ==
    /\ sync_args = << >>
    /\ existing_map = << >>
    /\ result = << >>

NoOwners == owners = << >>

NoDeploy ==
    /\ request_data = << >>
    /\ existing_records = << >>
    /\ returned = None
    /\ domain_files = << >>

InitProgram ==
    /\ InitProvider
    /\ desired_state = << >>
    /\ cf_records_list = << >>
    /\ processed_cf_ids = {}
    /\ overall_success = TRUE
    /\ loc = Pos("start", 0, 0, 0, 0, 0)
    /\ NoSync
    /\ NoDeploy
    /\ NoOwners

\* the request files of enabled parent domains
SpreadFiles == {<<"a", "ex">>, <<"b", "ex">>, <<"c", "org">>}

InitSpread ==
    /\ \E S \in SUBSET SpreadFiles :
       \E picks \in SeqsUpTo([at : S, what : SimpleEntries], MaxDesired) :
         /\ Sorted(picks, FileOrder)
         /\ files = Directory(S, picks)
    /\ \E held \in SeqsUpTo([at : Range(LiveNames), what : SimpleLive], MaxLive) :
         /\ Sorted(held, LiveNames)
         /\ live = [z \in Zones |-> Held(held, z, 1)]
    /\ InitProgram

InitPair ==
    /\ \E e \in RichEntries :
         files = Directory({<<"a", "ex">>}, <<[at |-> <<"a", "ex">>, what |-> e]>>)
    /\ \E r \in RichLive :
         live = [z \in Zones |-> Held(<<[at |-> <<"a", "ex">>, what |-> r]>>, z, 1)]
    /\ InitProgram

\* request files of a disabled parent domain (off) and of a parent domain that
\* the registry does not hold (no), beside one of an enabled parent domain
UnavailableFiles == {<<"a", "ex">>, <<"d", "off">>, <<"e", "no">>}

UnavailableLiveNames == << <<"a", "ex">>, <<"d", "off">> >>

InitUnavailable ==
    /\ \E S \in SUBSET UnavailableFiles :
       \E picks \in [S -> SimpleEntries] :
         files = [f \in S |-> [owner |-> "u", records |-> <<picks[f]>>]]
    /\ \E held \in SeqsUpTo([at : Range(UnavailableLiveNames), what : SimpleLive], MaxLive) :
         /\ Sorted(held, UnavailableLiveNames)
         /\ live = [z \in Zones |-> Held(held, z, 1)]
    /\ InitProgram

\* one request file whose document may lack owner or records and whose record
\* entries may lack type or value
MalformedEntries == {[type |-> "A", value |-> <<"t">>], [type |-> "A"], [value |-> <<"t">>]}

MalformedDocs ==
    {o1 @@ o2 : o1 \in Optional("owner", {"u"}),
                o2 \in Optional("records", SeqsUpTo(MalformedEntries, MaxDesired))}

InitMalformed ==
    /\ \E doc \in MalformedDocs : files = (<<"a", "ex">> :> doc)
    /\ \E held \in SeqsUpTo([at : {<<"a", "ex">>}, what : SimpleLive], 1) :
         live = [z \in Zones |-> Held(held, z, 1)]
    /\ InitProgram

\* one request file, of a subdomain or of the label "@", whose record entry may
\* carry a name field
NamedEntries ==
    {o1 @@ [type |-> "A", value |-> <<"t">>] : o1 \in Optional("name", {"@", "w"})}

NamedLiveNames == << <<"a", "ex">>, <<"w", "a", "ex">>, <<"ex">> >>

InitNamed ==
    /\ \E f \in {<<"a", "ex">>, <<"@", "ex">>} : \E e \in NamedEntries :
         files = Directory({f}, <<[at |-> f, what |-> e]>>)
    /\ \E held \in SeqsUpTo([at : Range(NamedLiveNames), what : SimpleLive], 1) :
         live = [z \in Zones |-> Held(held, z, 1)]
    /\ InitProgram

\* documents that are skipped: one that failed to load, one without records,
\* one without owner
SkippedDocs ==
    {<< >>, [owner |-> "u"], [records |-> <<[type |-> "A", value |-> <<"t">>]>>]}

SkippedLiveNames == << <<"a", "ex">>, <<"b", "ex">> >>

\* a skipped document a.ex and a file whose name has one label, beside the
\* valid document b.ex of the same zone
InitSkipped ==
    /\ \E a \in Optional(<<"a", "ex">>, SkippedDocs) :
       \E x \in Optional(<<"x">>, {[owner |-> "u",
                                     records |-> <<[type |-> "A", value |-> <<"t">>]>>]}) :
       \E b \in Optional(<<"b", "ex">>,
                          {[owner |-> "u", records |-> <<e>>] : e \in SimpleEntries}) :
         files = a @@ x @@ b
    /\ \E held \in SeqsUpTo([at : Range(SkippedLiveNames), what : SimpleLive], MaxLive) :
         /\ Sorted(held, SkippedLiveNames)
         /\ live = [z \in Zones |-> Held(held, z, 1)]
    /\ InitProgram

\* live records of the zone at the parent domain itself and at a name that is
\* no subdomain of the parent domain, beside those of a request file (a.ex) and
\* of a subdomain without request file (g.ex)
ScopeLiveNames == << <<"a", "ex">>, <<"g", "ex">>, <<"ex">>, <<"k", "fx">> >>

InitScope ==
    /\ \E picks \in SeqsUpTo([at : {<<"a", "ex">>}, what : SimpleEntries], 1) :
         files = Directory({<<"a", "ex">>}, picks)
    /\ \E held \in SeqsUpTo([at : Range(ScopeLiveNames), what : {[type |-> "A",
                                 content |-> <<"t">>, ttl |-> 1, proxied |-> TRUE]}], MaxLive) :
         /\ Sorted(held, ScopeLiveNames)
         /\ live = [z \in Zones |-> Held(held, z, 1)]
    /\ InitProgram

Init ==
    \/ InitSpread \/ InitPair \/ InitUnavailable \/ InitMalformed \/ InitNamed
    \/ InitSkipped \/ InitScope

Spec == Init /\ [][Next]_vars

(***************************************************************************)
(* CloudflareManager.sync_domain_records (scripts/cloudflare): one call    *)
(* synchronises the records of one subdomain.  A dict that is iterated is  *)
(* a sequence of [key, value] items in insertion order; the key            *)
(* "type:name" is the pair <<type, name>>.                                 *)
(***************************************************************************)
\* records passed to one call of sync_domain_records
MaxRecords == 3

\* str.lower() on the labels that occur
lower(label) ==
    CASE label = "A" -> "a"
      [] label = "W" -> "w"
      [] label = "T" -> "t"
      [] label = "U" -> "u"
      [] OTHER -> label

lower_name(n) == [i \in 1..Len(n) |-> lower(n[i])]

\* self.zone_ids, built from the domains of the configuration
zone_ids == (<<"ex">> :> "z1") @@ (<<"org">> :> "z2")

dict_has(m, key) == \E i \in 1..Len(m) : m[i].key = key

dict_get(m, key) == m[CHOOSE i \in 1..Len(m) : m[i].key = key].value

dict_put(m, key, value) ==
    IF dict_has(m, key)
    THEN [i \in 1..Len(m) |-> IF m[i].key = key THEN [key |-> key, value |-> value] ELSE m[i]]
    ELSE Append(m, [key |-> key, value |-> value])

\* full_name of the call
sync_full_name(domain, subdomain) ==
    IF subdomain = "@" THEN domain ELSE <<subdomain>> \o domain

\* mutant: every record of the call gets the full name of the call
sync_record_name_flat(name, domain, subdomain) == sync_full_name(domain, subdomain)

\* record_name of one record of the call
sync_record_name(name, domain, subdomain) ==
    LET full_name == sync_full_name(domain, subdomain) IN
    IF name = "@" THEN full_name
    ELSE IF subdomain # "@" THEN <<name>> \o full_name ELSE <<name>> \o domain

\* the data create_dns_record and update_dns_record send; the priority is a
\* sequence, empty for None
sync_record_data(record_type, name, content, ttl, proxied, priority) ==
    LET data == [type |-> record_type, name |-> name, content |-> content, ttl |-> ttl]
        prox == IF record_type \in {"A", "AAAA", "CNAME"}
                THEN ("proxied" :> proxied) ELSE << >>
        prio == IF record_type = "MX" /\ priority # << >>
                THEN ("priority" :> priority[1]) ELSE << >>
    IN  prox @@ prio @@ data

\* the keyword arguments sync_domain_records passes for one record
sync_data_of(record, record_name) ==
    sync_record_data(record["type"], record_name, record["content"],
                     Get(record, "ttl", 3600), Get(record, "proxied", TRUE),
                     IF "priority" \in DOMAIN record THEN <<record["priority"]>> ELSE << >>)

\* the key of record number i of the call
sync_key(args, i) ==
    <<args.records[i]["type"],
      sync_record_name(args.records[i]["name"], args.domain, args.subdomain)>>

\* the keys of new_map when the loop over the records has ended
new_map_keys(args) == {sync_key(args, i) : i \in 1..Len(args.records)}

\* existing_records: per record of the call, the listed records of its name
RECURSIVE matching_existing(_, _, _)
matching_existing(all_records_list, args, i) ==
    IF i > Len(args.records) THEN << >>
    ELSE LET record_name == sync_record_name(args.records[i]["name"], args.domain,
                                             args.subdomain)
         IN  SelectSeq(all_records_list,
                       LAMBDA r : lower_name(r["name"]) = lower_name(record_name))
             \o matching_existing(all_records_list, args, i + 1)

\* existing_map built from existing_records
RECURSIVE build_existing_map(_, _, _)
build_existing_map(m, existing, i) ==
    IF i > Len(existing) THEN m
    ELSE build_existing_map(dict_put(m, <<existing[i]["type"], existing[i]["name"]>>,
                                     existing[i]),
                            existing, i + 1)

\* result['errors'].append(...)
errors_append(errors, entry) == Append(errors, entry)

SyncPos(pc, i) == [pc |-> pc, i |-> i]

NoKey == <<"", << >> >>

\* the deletion loop from item i on: the next key that is not in new_map
RECURSIVE next_delete(_, _, _)
next_delete(m, keys, i) ==
    IF i > Len(m) THEN SyncPos("returned", 0)
    ELSE IF m[i].key \notin keys THEN SyncPos("sync_delete", i)
    ELSE next_delete(m, keys, i + 1)

\* mutant: the loop over the records ends at the first failure
after_record_stops(i, ok, args, m) ==
    IF i < Len(args.records) /\ ok THEN SyncPos("sync_record", i + 1)
    ELSE next_delete(m, new_map_keys(args), 1)

\* the position after record number i, whether its call succeeded or not
after_record(i, ok, args, m) ==
    IF i < Len(args.records) THEN SyncPos("sync_record", i + 1)
    ELSE next_delete(m, new_map_keys(args), 1)

\* debug_dns_query: the zone access check; a zone that cannot be accessed ends
\* the call (the listing of the debug query only fills debug_info)
SyncDebug ==
    /\ loc.pc = "sync_debug"
    /\ LET zone_id == zone_ids[sync_args.domain] IN
       \E ok \in Outcomes :
         /\ trace' = Append(trace, Ev("zone", zone_id, << >>, 0, NoKey, ok))
         /\ fails' = IF ok THEN fails ELSE fails + 1
         /\ loc' = IF ok THEN SyncPos("sync_list", 0) ELSE SyncPos("returned", 0)
         /\ result' = IF ok THEN result
                      ELSE [result EXCEPT
                              !.errors = errors_append(@, [key |-> NoKey, at |-> "zone"])]
    /\ UNCHANGED <<live, nextId, run, live0, sync_args, existing_map, main_vars, deploy_vars, owner_vars>>

\* the listing of the zone (one GET, no page parameter) and existing_map; a
\* failed listing ends the call
SyncList ==
    /\ loc.pc = "sync_list"
    /\ LET zone_id == zone_ids[sync_args.domain] IN
       \E ok \in Outcomes :
         /\ trace' = Append(trace, Ev("list", zone_id, << >>, 0, NoKey, ok))
         /\ fails' = IF ok THEN fails ELSE fails + 1
         /\ IF ok
            THEN LET m == build_existing_map(<< >>,
                              matching_existing(first_page(live[zone_id]), sync_args, 1), 1) IN
                 /\ existing_map' = m
                 /\ loc' = after_record(0, TRUE, sync_args, m)
                 /\ UNCHANGED result
            ELSE /\ result' = [result EXCEPT
                                 !.errors = errors_append(@, [key |-> NoKey, at |-> "list"])]
                 /\ loc' = SyncPos("returned", 0)
                 /\ UNCHANGED existing_map
    /\ UNCHANGED <<live, nextId, run, live0, sync_args, main_vars, deploy_vars, owner_vars>>

\* one record of the call: update when its key is in existing_map, else create
SyncRecord ==
    /\ loc.pc = "sync_record"
    /\ LET zone_id == zone_ids[sync_args.domain]
           record == sync_args.records[loc.i]
           record_name == sync_record_name(record["name"], sync_args.domain,
                                           sync_args.subdomain)
           key == sync_key(sync_args, loc.i)
           data == sync_data_of(record, record_name)
       IN
       IF dict_has(existing_map, key)
       THEN LET existing_record == dict_get(existing_map, key) IN
            \E ok \in (IF HasId(live[zone_id], existing_record["id"])
                       THEN Outcomes ELSE {FALSE}) :
              /\ trace' = Append(trace, Ev("update", zone_id, record_name,
                                           existing_record["id"], key, ok))
              /\ fails' = IF ok THEN fails ELSE fails + 1
              /\ live' = IF ok
                         THEN [live EXCEPT
                                 ![zone_id] = provider_update(@, existing_record["id"], data)]
                         ELSE live
              /\ result' = IF ok
                           THEN [result EXCEPT
                                   !.updated = Append(@, ("id" :> existing_record["id"]) @@ data)]
                           ELSE [result EXCEPT
                                   !.errors = errors_append(@, [key |-> key, at |-> "record"])]
              /\ loc' = after_record(loc.i, ok, sync_args, existing_map)
              /\ UNCHANGED nextId
       ELSE \E ok \in Outcomes :
              /\ trace' = Append(trace, Ev("create", zone_id, record_name, 0, key, ok))
              /\ fails' = IF ok THEN fails ELSE fails + 1
              /\ live' = IF ok
                         THEN [live EXCEPT ![zone_id] = provider_create(@, nextId, data)]
                         ELSE live
              /\ nextId' = IF ok THEN nextId + 1 ELSE nextId
              /\ result' = IF ok
                           THEN [result EXCEPT
                                   !.created = Append(@, ("id" :> nextId) @@ data)]
                           ELSE [result EXCEPT
                                   !.errors = errors_append(@, [key |-> key, at |-> "record"])]
              /\ loc' = after_record(loc.i, ok, sync_args, existing_map)
    /\ UNCHANGED <<run, live0, sync_args, existing_map, main_vars, deploy_vars, owner_vars>>

\* one item of existing_map whose key is not in new_map: delete its record
SyncDelete ==
    /\ loc.pc = "sync_delete"
    /\ LET zone_id == zone_ids[sync_args.domain]
           key == existing_map[loc.i].key
           existing_record == existing_map[loc.i].value
       IN
       \E ok \in (IF HasId(live[zone_id], existing_record["id"]) THEN Outcomes ELSE {FALSE}) :
         /\ trace' = Append(trace, Ev("delete", zone_id, existing_record["name"],
                                      existing_record["id"], key, ok))
         /\ fails' = IF ok THEN fails ELSE fails + 1
         /\ live' = IF ok
                    THEN [live EXCEPT ![zone_id] = provider_delete(@, existing_record["id"])]
                    ELSE live
         /\ result' = IF ok
                      THEN [result EXCEPT !.deleted = Append(@, existing_record)]
                      ELSE [result EXCEPT
                              !.errors = errors_append(@, [key |-> key, at |-> "delete"])]
         /\ loc' = next_delete(existing_map, new_map_keys(sync_args), loc.i + 1)
    /\ UNCHANGED <<nextId, run, live0, sync_args, existing_map, main_vars, deploy_vars, owner_vars>>

NextSync == SyncDebug \/ SyncList \/ SyncRecord \/ SyncDelete

\* the names that live records carry: the subdomain, a name below it, the
\* domain itself, the subdomain as the provider may spell it
SyncLiveNames == << <<"a", "ex">>, <<"w", "a", "ex">>, <<"ex">>, <<"A", "ex">> >>

SyncEntries ==
    {[type |-> "A", name |-> "@", content |-> <<"t">>],
     [type |-> "A", name |-> "w", content |-> <<"t">>],
     [type |-> "A", name |-> "@", content |-> <<"u">>, proxied |-> FALSE],
     [type |-> "MX", name |-> "@", content |-> <<"t">>, priority |-> 10]}

SyncLive ==
    {[type |-> "A", content |-> <<"t">>, ttl |-> 3600, proxied |-> TRUE],
     [type |-> "TXT", content |-> <<"t">>, ttl |-> 3600]}

InitSync ==
    /\ \E subdomain \in {"a", "@"} :
       \E records \in SeqsUpTo(SyncEntries, MaxRecords) :
         sync_args = [domain |-> <<"ex">>, subdomain |-> subdomain, records |-> records]
    /\ \E held \in SeqsUpTo([at : Range(SyncLiveNames), what : SyncLive], MaxLive) :
         /\ Sorted(held, SyncLiveNames)
         /\ live = [z \in Zones |-> Held(held, z, 1)]
    /\ InitProvider
    /\ existing_map = << >>
    /\ result = [created |-> << >>, updated |-> << >>, deleted |-> << >>, errors |-> << >>]
    /\ loc = SyncPos("sync_debug", 0)
    /\ NoMain
    /\ NoDeploy
    /\ NoOwners

SpecSync == InitSync /\ [][NextSync]_vars

(***************************************************************************)
(* DNSDeployer (scripts/deploy_dns.py): deploy_request and delete_request  *)
(* of one request file, with the CloudflareAPI client of that script.      *)
(***************************************************************************)
\* self.domains_config["domains"] (config/domains.yml)
DeployConfig ==
    (<<"ex">> :> [enabled |-> TRUE, cloudflare_zone_id |-> "z1"])
    @@ (<<"off">> :> [enabled |-> FALSE, cloudflare_zone_id |-> "z3"])
    @@ (<<"nz">> :> [enabled |-> TRUE])

\* mutant: every domain has the configuration of the domain ex
domain_config_any(domain) == DeployConfig[<<"ex">>]

\* self.domains_config.get("domains", {}).get(domain); None is the empty function
domain_config_of(domain) ==
    IF domain \in DOMAIN DeployConfig THEN DeployConfig[domain] ELSE << >>

\* record_data of deploy_request
deploy_record_data(record, full_domain) ==
    LET base == [type |-> record["type"], name |-> full_domain,
                 content |-> record["value"], ttl |-> Get(record, "ttl", 3600),
                 proxied |-> Get(record, "proxied", FALSE)]
    IN  IF record["type"] = "MX"
        THEN ("priority" :> Get(record, "priority", 10)) @@ base
        ELSE base

\* CloudflareAPI.list_dns_records(zone_id, name): one GET with the name as
\* filter and no page parameter, and the empty list when the request fails
deploy_list_dns_records(recs, name, ok) ==
    IF ok THEN first_page(SelectSeq(recs, LAMBDA r : r["name"] = name)) ELSE << >>

\* all([...]) over the fields of the request file
all_present(data, fields) == \A f \in fields : f \in DOMAIN data

DeployPos(pc, i, success) == [pc |-> pc, i |-> i, success |-> success]

\* mutant: the local record file is not written
save_domain_record_skipped(saved, domain, subdomain, data) == saved

\* save_domain_record
save_domain_record(saved, domain, subdomain, data) ==
    (<<domain, subdomain>> :> data) @@ saved

\* mutant: the local record file is never removed
remove_domain_record_kept(saved, domain, subdomain) == saved

\* remove_domain_record
remove_domain_record(saved, domain, subdomain) ==
    [f \in DOMAIN saved \ {<<domain, subdomain>>} |-> saved[f]]

\* deploy_request up to the listing of the full domain name
DeployRequest ==
    /\ loc.pc = "deploy"
    /\ IF \/ ~all_present(request_data, {"domain", "subdomain", "record"})
          \/ domain_config_of(request_data.domain) = << >>
          \/ ~Get(domain_config_of(request_data.domain), "enabled", FALSE)
          \/ "cloudflare_zone_id" \notin DOMAIN domain_config_of(request_data.domain)
       THEN /\ returned' = FALSE
            /\ loc' = DeployPos("exit", 0, FALSE)
            /\ UNCHANGED <<existing_records, trace, fails>>
       ELSE LET zone_id == domain_config_of(request_data.domain).cloudflare_zone_id
                full_domain == <<request_data.subdomain>> \o request_data.domain
            IN  \E ok \in Outcomes :
                  /\ trace' = Append(trace, Ev("list", zone_id, full_domain, 0, NoKey, ok))
                  /\ fails' = IF ok THEN fails ELSE fails + 1
                  /\ existing_records' = deploy_list_dns_records(live[zone_id], full_domain, ok)
                  /\ loc' = DeployPos("deploy_write", 0, TRUE)
                  /\ UNCHANGED returned
    /\ UNCHANGED <<live, nextId, run, live0, request_data, domain_files, main_vars, sync_vars, owner_vars>>

\* deploy_request after the listing: update the first listed record, or create
DeployWrite ==
    /\ loc.pc = "deploy_write"
    /\ LET zone_id == domain_config_of(request_data.domain).cloudflare_zone_id
           full_domain == <<request_data.subdomain>> \o request_data.domain
           record_data == deploy_record_data(request_data.record, full_domain)
           key == <<record_data["type"], full_domain>>
       IN
       IF existing_records # << >>
       THEN LET record_id == existing_records[1]["id"] IN
            \E ok \in (IF HasId(live[zone_id], record_id) THEN Outcomes ELSE {FALSE}) :
              /\ trace' = Append(trace, Ev("update", zone_id, full_domain, record_id, key, ok))
              /\ fails' = IF ok THEN fails ELSE fails + 1
              /\ live' = IF ok
                         THEN [live EXCEPT ![zone_id] = provider_update(@, record_id, record_data)]
                         ELSE live
              /\ domain_files' = IF ok
                                 THEN save_domain_record(domain_files, request_data.domain,
                                                         request_data.subdomain, request_data)
                                 ELSE domain_files
              /\ returned' = ok
              /\ UNCHANGED nextId
       ELSE \E ok \in Outcomes :
              /\ trace' = Append(trace, Ev("create", zone_id, full_domain, 0, key, ok))
              /\ fails' = IF ok THEN fails ELSE fails + 1
              /\ live' = IF ok
                         THEN [live EXCEPT ![zone_id] = provider_create(@, nextId, record_data)]
                         ELSE live
              /\ nextId' = IF ok THEN nextId + 1 ELSE nextId
              /\ domain_files' = IF ok
                                 THEN save_domain_record(domain_files, request_data.domain,
                                                         request_data.subdomain, request_data)
                                 ELSE domain_files
              /\ returned' = ok
    /\ loc' = DeployPos("exit", 0, FALSE)
    /\ UNCHANGED <<run, live0, request_data, existing_records, main_vars, sync_vars, owner_vars>>

\* delete_request up to the listing of the full domain name
DeleteRequest ==
    /\ loc.pc = "delete"
    /\ IF \/ ~all_present(request_data, {"domain", "subdomain"})
          \/ domain_config_of(request_data.domain) = << >>
          \/ "cloudflare_zone_id" \notin DOMAIN domain_config_of(request_data.domain)
       THEN /\ returned' = FALSE
            /\ loc' = DeployPos("exit", 0, FALSE)
            /\ UNCHANGED <<existing_records, trace, fails>>
       ELSE LET zone_id == domain_config_of(request_data.domain).cloudflare_zone_id
                full_domain == <<request_data.subdomain>> \o request_data.domain
            IN  \E ok \in Outcomes :
                  LET listed == deploy_list_dns_records(live[zone_id], full_domain, ok) IN
                  /\ trace' = Append(trace, Ev("list", zone_id, full_domain, 0, NoKey, ok))
                  /\ fails' = IF ok THEN fails ELSE fails + 1
                  /\ existing_records' = listed
                  /\ IF listed = << >>
                     THEN /\ returned' = TRUE
                          /\ loc' = DeployPos("exit", 0, FALSE)
                     ELSE /\ loc' = DeployPos("delete_records", 1, TRUE)
                          /\ UNCHANGED returned
    /\ UNCHANGED <<live, nextId, run, live0, request_data, domain_files, main_vars, sync_vars, owner_vars>>

\* delete_request: delete one listed record; after the last one, remove the
\* local record file when every delete succeeded
DeleteRecord ==
    /\ loc.pc = "delete_records"
    /\ LET zone_id == domain_config_of(request_data.domain).cloudflare_zone_id
           record == existing_records[loc.i]
       IN
       \E ok \in (IF HasId(live[zone_id], record["id"]) THEN Outcomes ELSE {FALSE}) :
         LET success == loc.success /\ ok IN
         /\ trace' = Append(trace, Ev("delete", zone_id, record["name"], record["id"],
                                      <<record["type"], record["name"]>>, ok))
         /\ fails' = IF ok THEN fails ELSE fails + 1
         /\ live' = IF ok THEN [live EXCEPT ![zone_id] = provider_delete(@, record["id"])]
                    ELSE live
         /\ IF loc.i < Len(existing_records)
            THEN /\ loc' = DeployPos("delete_records", loc.i + 1, success)
                 /\ UNCHANGED <<returned, domain_files>>
            ELSE /\ loc' = DeployPos("exit", 0, FALSE)
                 /\ returned' = success
                 /\ domain_files' = IF success
                                    THEN remove_domain_record(domain_files, request_data.domain,
                                                              request_data.subdomain)
                                    ELSE domain_files
    /\ UNCHANGED <<nextId, run, live0, request_data, existing_records, main_vars, sync_vars, owner_vars>>

NextDeploy == DeployRequest \/ DeployWrite \/ DeleteRequest \/ DeleteRecord

DeployEntries ==
    {[type |-> "A", value |-> <<"t">>],
     [type |-> "A", value |-> <<"u">>, proxied |-> TRUE],
     [type |-> "MX", value |-> <<"t">>]}

DeployLive ==
    {[type |-> "A", content |-> <<"t">>, ttl |-> 3600, proxied |-> FALSE],
     [type |-> "TXT", content |-> <<"t">>, ttl |-> 3600]}

DeployLiveNames == << <<"a", "ex">>, <<"g", "ex">> >>

\* the request files: complete ones, and one without record
DeployRequests ==
    {[domain |-> d, subdomain |-> "a", record |-> r] :
        d \in {<<"ex">>, <<"off">>, <<"nz">>, <<"no">>}, r \in DeployEntries}
    \cup {[domain |-> <<"ex">>, subdomain |-> "a"]}

InitDeploy ==
    /\ request_data \in DeployRequests
    /\ \E held \in SeqsUpTo([at : Range(DeployLiveNames), what : DeployLive], MaxLive) :
         /\ Sorted(held, DeployLiveNames)
         /\ live = [z \in Zones |-> Held(held, z, 1)]
    /\ InitProvider
    /\ existing_records = << >>
    /\ returned = None
    /\ domain_files \in {<< >>, (<< <<"ex">>, "a" >> :> [domain |-> <<"ex">>, subdomain |-> "a"])}
    /\ loc \in {DeployPos("deploy", 0, FALSE), DeployPos("delete", 0, FALSE)}
    /\ NoMain
    /\ NoSync
    /\ NoOwners

SpecDeploy == InitDeploy /\ [][NextDeploy]_vars

(***************************************************************************)
(* RequestValidator (scripts/validate_request.py) and the request          *)
(* pipeline of an owner: validate_request on the owner's request file and, *)
(* when the result is valid, DNSDeployer.deploy_request on the same file.  *)
(* The pipelines of the owners run side by side on one provider and one    *)
(* directory of local record files.                                        *)
(***************************************************************************)
Owners == {"u", "v"}

\* self.domains_config["settings"]
ValidatorSettings ==
    [blocked_subdomains |-> <<"www">>, blocked_users |-> <<"x">>,
     max_subdomains_per_user |-> 3, require_github_verification |-> TRUE]

\* validate_json_schema: the required fields of the schema
validate_json_schema(request) ==
    IF /\ {"domain", "subdomain", "owner", "record", "description"} \subseteq DOMAIN request
       /\ {"username", "email"} \subseteq DOMAIN request.owner
       /\ {"type", "value"} \subseteq DOMAIN request.record
    THEN << >> ELSE <<"schema">>

\* mutant: every domain is accepted
validate_domain_availability_any(domain) == << >>

validate_domain_availability(domain) ==
    LET domain_config == domain_config_of(domain) IN
    IF domain_config = << >> THEN <<"domain_missing">>
    ELSE IF ~Get(domain_config, "enabled", FALSE) THEN <<"domain_disabled">>
    ELSE << >>

validate_subdomain_availability(saved, domain, subdomain) ==
    (IF lower(subdomain) \in {lower(s) : s \in Range(ValidatorSettings.blocked_subdomains)}
     THEN <<"subdomain_blocked">> ELSE << >>)
    \o (IF <<domain, subdomain>> \in DOMAIN saved THEN <<"subdomain_taken">> ELSE << >>)

Digits == {"0", "1", "2", "3", "4", "5", "6", "7", "8", "9"}

\* value.split("."): the parts between the dots
RECURSIVE split_dots(_, _)
split_dots(s, part) ==
    IF s = << >> THEN <<part>>
    ELSE IF s[1] = "." THEN <<part>> \o split_dots(SubSeq(s, 2, Len(s)), << >>)
    ELSE split_dots(SubSeq(s, 2, Len(s)), Append(part, s[1]))

\* 25[0-5]|2[0-4][0-9]|[01]?[0-9][0-9]?
octet(p) ==
    /\ Len(p) \in 1..3
    /\ \A i \in 1..Len(p) : p[i] \in Digits
    /\ Len(p) = 3 =>
          \/ p[1] \in {"0", "1"}
          \/ p[1] = "2" /\ p[2] \in {"0", "1", "2", "3", "4"}
          \/ p[1] = "2" /\ p[2] = "5" /\ p[3] \in {"0", "1", "2", "3", "4", "5"}

is_valid_ipv4(ip) ==
    LET parts == split_dots(ip, << >>) IN
    Len(parts) = 4 /\ \A i \in 1..4 : octet(parts[i])

Alnum == Digits \cup {"t", "u", "T"}

\* [a-zA-Z0-9]([a-zA-Z0-9\-]{0,61}[a-zA-Z0-9])?
domain_label(p) ==
    /\ Len(p) \in 1..63
    /\ p[1] \in Alnum
    /\ p[Len(p)] \in Alnum
    /\ \A i \in 1..Len(p) : p[i] \in Alnum \cup {"-"}

is_valid_domain(domain) ==
    LET parts == split_dots(domain, << >>) IN
    Len(domain) <= 253 /\ \A i \in 1..Len(parts) : domain_label(parts[i])

\* validate_record_format for the record types A, CNAME, MX, TXT and the types
\* it has no rule for
validate_record_format(record) ==
    LET record_type == upper(Get(record, "type", ""))
        value == Get(record, "value", << >>)
    IN  CASE record_type = "A" ->
               IF is_valid_ipv4(value) THEN << >> ELSE <<"ipv4">>
          [] record_type = "CNAME" ->
               IF is_valid_domain(value) THEN << >> ELSE <<"domain">>
          [] record_type = "MX" ->
               (IF is_valid_domain(value) THEN << >> ELSE <<"mail_domain">>)
               \o (IF "priority" \in DOMAIN record THEN << >> ELSE <<"priority">>)
          [] record_type = "TXT" ->
               IF Len(value) > 255 THEN <<"txt_length">> ELSE << >>
          [] record_type \notin {"A", "CNAME", "MX", "TXT", "AAAA", "SRV"} -> << >>

\* count_user_subdomains: the local record files of the user
count_user_subdomains(saved, username) ==
    Cardinality({f \in DOMAIN saved :
        lower(Get(Get(saved[f], "owner", << >>), "username", "")) = lower(username)})

validate_user_limits(saved, username) ==
    IF lower(username) \in {lower(b) : b \in Range(ValidatorSettings.blocked_users)}
    THEN <<"user_blocked">>
    ELSE IF count_user_subdomains(saved, username)
              >= ValidatorSettings.max_subdomains_per_user
         THEN <<"user_limit">> ELSE << >>

\* what the GitHub API answers about the user
GithubAnswers == {"ok", "not_found", "too_young", "other_email", "unreachable"}

validate_github_user(answer) ==
    IF ~ValidatorSettings.require_github_verification \/ answer = "ok"
    THEN << >> ELSE <<answer>>

\* validate_request on a request file; a file that cannot be read or parsed is
\* [readable |-> FALSE]
validate_request(request_file, saved, answer) ==
    IF ~request_file.readable THEN [valid |-> FALSE, errors |-> <<"unreadable">>]
    ELSE LET request == request_file.data
             schema_errors == validate_json_schema(request)
         IN  IF schema_errors # << >> THEN [valid |-> FALSE, errors |-> schema_errors]
             ELSE LET errors ==
                          validate_domain_availability(request.domain)
                          \o validate_subdomain_availability(saved, request.domain,
                                                             request.subdomain)
                          \o validate_record_format(request.record)
                          \o validate_user_limits(saved, request.owner.username)
                          \o validate_github_user(answer)
                  IN  [valid |-> errors = << >>, errors |-> errors]

OwnerPos(pc, request_file, validation, listed, ret) ==
    [pc |-> pc, request_file |-> request_file, validation |-> validation,
     existing_records |-> listed, returned |-> ret]

NoResult == [valid |-> FALSE, errors |-> << >>]

\* validate_request of owner o; main exits with 0 exactly when the result is
\* valid, and only then the pipeline goes on to deploy_request
ValidateRequest(o) ==
    /\ loc.pc = "owners"
    /\ owners[o].pc = "validate"
    /\ \E answer \in GithubAnswers :
         LET res == validate_request(owners[o].request_file, domain_files, answer) IN
         owners' = [owners EXCEPT ![o].validation = res,
                                  ![o].pc = IF res.valid THEN "deploy" ELSE "exit"]
    /\ UNCHANGED <<live, nextId, loc, run, fails, trace, live0, request_data,
                   existing_records, returned, domain_files, main_vars, sync_vars>>

\* deploy_request of owner o up to the listing of the full domain name
OwnerDeployRequest(o) ==
    /\ loc.pc = "owners"
    /\ owners[o].pc = "deploy"
    /\ LET data == owners[o].request_file.data
           domain_config == domain_config_of(data.domain)
       IN
       IF \/ ~all_present(data, {"domain", "subdomain", "record"})
          \/ domain_config = << >>
          \/ ~Get(domain_config, "enabled", FALSE)
          \/ "cloudflare_zone_id" \notin DOMAIN domain_config
       THEN /\ owners' = [owners EXCEPT ![o].returned = FALSE, ![o].pc = "exit"]
            /\ UNCHANGED <<trace, fails>>
       ELSE LET zone_id == domain_config.cloudflare_zone_id
                full_domain == <<data.subdomain>> \o data.domain
            IN  \E ok \in Outcomes :
                  /\ trace' = Append(trace, Ev("list", zone_id, full_domain, 0,
                                               <<o, full_domain>>, ok))
                  /\ fails' = IF ok THEN fails ELSE fails + 1
                  /\ owners' = [owners EXCEPT
                                  ![o].existing_records =
                                      deploy_list_dns_records(live[zone_id], full_domain, ok),
                                  ![o].pc = "deploy_write"]
    /\ UNCHANGED <<live, nextId, loc, run, live0, request_data, existing_records,
                   returned, domain_files, main_vars, sync_vars>>

\* deploy_request of owner o after the listing
OwnerDeployWrite(o) ==
    /\ loc.pc = "owners"
    /\ owners[o].pc = "deploy_write"
    /\ LET data == owners[o].request_file.data
           zone_id == domain_config_of(data.domain).cloudflare_zone_id
           full_domain == <<data.subdomain>> \o data.domain
           record_data == deploy_record_data(data.record, full_domain)
           listed == owners[o].existing_records
           key == <<o, full_domain>>
       IN
       IF listed # << >>
       THEN LET record_id == listed[1]["id"] IN
            \E ok \in (IF HasId(live[zone_id], record_id) THEN Outcomes ELSE {FALSE}) :
              /\ trace' = Append(trace, Ev("update", zone_id, full_domain, record_id, key, ok))
              /\ fails' = IF ok THEN fails ELSE fails + 1
              /\ live' = IF ok
                         THEN [live EXCEPT ![zone_id] = provider_update(@, record_id, record_data)]
                         ELSE live
              /\ domain_files' = IF ok
                                 THEN save_domain_record(domain_files, data.domain,
                                                         data.subdomain, data)
                                 ELSE domain_files
              /\ owners' = [owners EXCEPT ![o].returned = ok, ![o].pc = "exit"]
              /\ UNCHANGED nextId
       ELSE \E ok \in Outcomes :
              /\ trace' = Append(trace, Ev("create", zone_id, full_domain, 0, key, ok))
              /\ fails' = IF ok THEN fails ELSE fails + 1
              /\ live' = IF ok
                         THEN [live EXCEPT ![zone_id] = provider_create(@, nextId, record_data)]
                         ELSE live
              /\ nextId' = IF ok THEN nextId + 1 ELSE nextId
              /\ domain_files' = IF ok
                                 THEN save_domain_record(domain_files, data.domain,
                                                         data.subdomain, data)
                                 ELSE domain_files
              /\ owners' = [owners EXCEPT ![o].returned = ok, ![o].pc = "exit"]
    /\ UNCHANGED <<loc, run, live0, request_data, existing_records, returned,
                   main_vars, sync_vars>>

NextOwners ==
    \/ \E o \in Owners : ValidateRequest(o)
    \/ \E o \in Owners : OwnerDeployRequest(o)
    \/ \E o \in Owners : OwnerDeployWrite(o)

\* the request of owner o for the subdomain and domain, with the record value
OwnerRequest(o, domain, subdomain, value) ==
    [domain |-> domain, subdomain |-> subdomain,
     owner |-> [username |-> o, email |-> o],
     record |-> [type |-> "A", value |-> value], description |-> "d"]

ValidAddress == <<"1", ".", "2", ".", "3", ".", "4">>

\* the request files of owner o: a valid request for a.ex, requests for a
\* disabled and for an unknown domain, for a blocked subdomain, with an invalid
\* address, without description, with an MX record without priority, and a
\* file that cannot be parsed
OwnerFiles(o) ==
    {[readable |-> TRUE, data |-> d] :
        d \in {OwnerRequest(o, <<"ex">>, "a", ValidAddress),
               OwnerRequest(o, <<"off">>, "a", ValidAddress),
               OwnerRequest(o, <<"no">>, "a", ValidAddress),
               OwnerRequest(o, <<"ex">>, "www", ValidAddress),
               OwnerRequest(o, <<"ex">>, "a", <<"2", "5", "6", ".", "1", ".", "1", ".", "1">>),
               [domain |-> <<"off">>, subdomain |-> "a",
                owner |-> [username |-> o, email |-> o],
                record |-> [type |-> "A", value |-> ValidAddress]],
               [OwnerRequest(o, <<"ex">>, "a", <<"t", ".", "u">>) EXCEPT
                    !.record = [type |-> "MX", value |-> <<"t", ".", "u">>]]}}
    \cup {[readable |-> FALSE]}

\* local record files at the start: none, or three of the user U
OwnerMirrors ==
    {<< >>,
     [f \in {<< <<"ex">>, s >> : s \in {"b", "c", "d"}} |->
         OwnerRequest("U", f[1], f[2], ValidAddress)]}

InitOwners ==
    /\ \E fu \in OwnerFiles("u") : \E fv \in OwnerFiles("v") :
         owners = [o \in Owners |->
                     OwnerPos("validate", IF o = "u" THEN fu ELSE fv, NoResult, << >>, None)]
    /\ \E held \in SeqsUpTo([at : {<<"a", "ex">>}, what : DeployLive], 1) :
         live = [z \in Zones |-> Held(held, z, 1)]
    /\ InitProvider
    /\ domain_files \in OwnerMirrors
    /\ loc = [pc |-> "owners"]
    /\ request_data = << >>
    /\ existing_records = << >>
    /\ returned = None
    /\ NoMain
    /\ NoSync

SpecOwners == InitOwners /\ [][NextOwners]_vars

(***************************************************************************)
(* The programs together: a behaviour is a run of one of them.             *)
(***************************************************************************)
InitAll == Init \/ InitSync \/ InitDeploy \/ InitOwners

NextAll == Next \/ NextSync \/ NextDeploy \/ NextOwners

SpecAll == InitAll /\ [][NextAll]_vars

(***************************************************************************)
(* Reading the history of a run of main.                                   *)
(***************************************************************************)
Writes == {"create", "update", "delete"}
DesiredOutcomes == {"unchanged", "update", "create"}

Done == loc.pc = "done"

\* the events of run r
InRun(r) == {i \in DOMAIN trace : trace[i].run = r}

\* every provider call of run r succeeded
RunClean(r) == \A i \in InRun(r) : trace[i].ok

\* the listing of zone number zi of the desired state succeeded in this run
Listed(zi) ==
    \E i \in InRun(run) : trace[i].op = "list" /\ trace[i].key[1] = zi /\ trace[i].ok

\* a desired record of this run was matched against the live record `id` as
\* unchanged, or updated it successfully
Claimed(id) ==
    \E i \in InRun(run) :
        /\ trace[i].id = id
        /\ trace[i].op = "unchanged" \/ (trace[i].op = "update" /\ trace[i].ok)

\* a delete call was issued in this run for the live record `id`
DeleteIssued(id) == \E i \in InRun(run) : trace[i].op = "delete" /\ trace[i].id = id

\* the desired records of the request directory, of all zones and names
AllDesired ==
    UNION {UNION {Range(desired_state[zi].records_to_manage[ni].records) :
                    ni \in 1..Len(desired_state[zi].records_to_manage)} :
             zi \in 1..Len(desired_state)}

\* some desired record has the identity key (recordType, name) of rec
KeyDesired(rec) ==
    \E d \in AllDesired : d["type"] = rec["type"] /\ d["name"] = rec["name"]

\* the names zone number zi manages (one per request file)
ManagedNames(zi) ==
    {desired_state[zi].records_to_manage[ni].name :
        ni \in 1..Len(desired_state[zi].records_to_manage)}

\* name lies strictly below the parent domain
Below(name, parent) ==
    /\ Len(name) > Len(parent)
    /\ \A i \in 1..Len(parent) : name[Len(name) - Len(parent) + i] = parent[i]

\* the live record with this id when the run started
Live0(zone, id) == CHOOSE rec \in Range(live0[zone]) : rec["id"] = id

(***************************************************************************)
(* C1. Idempotence of main: a run that follows a run in which every        *)
(* provider call succeeded, on the same request directory, issues no       *)
(* create, update or delete call.                                          *)
(***************************************************************************)
C1_Idempotent ==
    \A i \in DOMAIN trace :
        (trace[i].run > 1 /\ RunClean(trace[i].run - 1)) => trace[i].op \notin Writes

\* a second run has ended after a first run that created, updated and deleted
C1_Witness ==
    /\ run = 2 /\ Done
    /\ \A op \in Writes : \E i \in InRun(1) : trace[i].op = op /\ trace[i].ok
    /\ \E i \in InRun(2) : trace[i].op = "unchanged"

(***************************************************************************)
(* C2. Coverage: when a run of main ends, every desired record of a zone   *)
(* whose listing succeeded has exactly one outcome among unchanged,        *)
(* update and create; no desired record ever has two.                      *)
(***************************************************************************)
OutcomesOf(key) ==
    {i \in InRun(run) : trace[i].key = key /\ trace[i].op \in DesiredOutcomes}

C2_Coverage ==
    /\ \A i \in InRun(run) :
          trace[i].op \in DesiredOutcomes => Cardinality(OutcomesOf(trace[i].key)) = 1
    /\ Done =>
          \A zi \in 1..Len(desired_state) : Listed(zi) =>
            \A ni \in 1..Len(desired_state[zi].records_to_manage) :
              \A di \in 1..Len(desired_state[zi].records_to_manage[ni].records) :
                Cardinality(OutcomesOf(<<zi, ni, di>>)) = 1

\* a run ended in which one desired record was updated and another created
C2_Witness ==
    /\ Done
    /\ \E i \in InRun(run) : trace[i].op = "update"
    /\ \E i \in InRun(run) : trace[i].op = "create"

(***************************************************************************)
(* C3. Orphan deletion: after a run of main without failed call, every     *)
(* live record of an enabled zone whose identity key (recordType, name) is *)
(* not desired has had a delete call issued, the records of a zone without *)
(* request document and the records named as the parent domain included.   *)
(***************************************************************************)
EnabledZones ==
    {z \in Zones : \E i \in 1..Len(DomainsConfig) : get_zone_id(DomainsConfig[i].name) = z}

C3_Claim ==
    (Done /\ RunClean(run)) =>
        \A z \in EnabledZones : \A rec \in Range(live0[z]) :
            ~KeyDesired(rec) => DeleteIssued(rec["id"])

(***************************************************************************)
(* C4. Deletes are limited to absent keys.  As claimed: a delete call is   *)
(* issued for a live record only if no desired record has its identity     *)
(* key (recordType, name).                                                 *)
(***************************************************************************)
C4_Original ==
    \A i \in InRun(run) :
        (trace[i].op = "delete" /\ desired_state # << >>)
        => ~KeyDesired(Live0(trace[i].zone, trace[i].id))

\* C4 as amended: a delete call is issued for a live record only if no desired
\* record of the run claimed it (matched it as unchanged or updated it with
\* success), and its name is a managed name or a name below the parent domain
\* without request file; a live record whose content differs from every
\* desired record of its type and name is deleted.
C4_DeletesUnclaimed ==
    \A i \in InRun(run) :
        trace[i].op = "delete" =>
            /\ ~Claimed(trace[i].id)
            /\ \E zi \in 1..Len(desired_state) :
                /\ desired_state[zi].zone_id = trace[i].zone
                /\ \/ trace[i].name \in ManagedNames(zi)
                   \/ Below(trace[i].name, desired_state[zi].domain_name)
                        /\ trace[i].name \notin DOMAIN files

\* a live record is deleted although a desired record has its type and name
C4_Witness ==
    \E i \in InRun(run) :
        /\ trace[i].op = "delete"
        /\ desired_state # << >>
        /\ KeyDesired(Live0(trace[i].zone, trace[i].id))

(***************************************************************************)
(* C5. Phase barrier.  As claimed: within one zone of one run, no delete   *)
(* call precedes a create or update call.                                  *)
(***************************************************************************)
C5_Original ==
    \A i \in DOMAIN trace : \A j \in DOMAIN trace :
        (/\ i < j
         /\ trace[i].run = trace[j].run /\ trace[i].zone = trace[j].zone
         /\ trace[i].op = "delete")
        => trace[j].op \notin {"create", "update"}

\* C5 as amended: within one zone of one run, the creates and updates of a
\* managed name all return before the deletes of that name begin, and the
\* deletes of names without request file begin after every create and update
\* of the zone; a delete that precedes a create or update is the delete of a
\* stale record of an earlier managed name.
C5_BarrierPerName ==
    \A i \in DOMAIN trace : \A j \in DOMAIN trace :
        (/\ i < j
         /\ trace[i].run = trace[j].run /\ trace[i].zone = trace[j].zone
         /\ trace[i].op = "delete"
         /\ trace[j].op \in {"create", "update"})
        => (trace[i].key[2] > 0 /\ trace[j].key[2] > trace[i].key[2])

\* a stale record of the first name is deleted before a record of the second
\* name is created
C5_Witness ==
    \E i \in DOMAIN trace : \E j \in DOMAIN trace :
        /\ i < j
        /\ trace[i].run = trace[j].run /\ trace[i].zone = trace[j].zone
        /\ trace[i].op = "delete" /\ trace[j].op = "create"

(***************************************************************************)
(* C9. Proxy-only delta: a desired A, AAAA or CNAME record, the only one   *)
(* of its name, whose content equals that of the only live record of the   *)
(* name and type but whose proxied flag differs (absent is false): the run *)
(* issues one update call for that live record, no create for the desired  *)
(* record and no delete of the live record.                                *)
(***************************************************************************)
\* the only desired record of name number ni and the only live record at that
\* name, for every name where both are alone
SolePairs ==
    {<<zi, ni, rec>> \in
        UNION {UNION {{<<zi, ni, rec>> : rec \in Range(live0[desired_state[zi].zone_id])} :
                        ni \in 1..Len(desired_state[zi].records_to_manage)} :
                 zi \in 1..Len(desired_state)} :
        LET managed == desired_state[zi].records_to_manage[ni] IN
        /\ Listed(zi)
        /\ Len(managed.records) = 1
        /\ rec["name"] = managed.name
        /\ \A other \in Range(live0[desired_state[zi].zone_id]) :
              other["name"] = managed.name => other = rec}

Flag(r) == IF "proxied" \in DOMAIN r THEN r["proxied"] ELSE FALSE

C9_Claim ==
    Done =>
        \A pair \in SolePairs :
            LET d == desired_state[pair[1]].records_to_manage[pair[2]].records[1]
                rec == pair[3]
            IN  (/\ d["type"] \in {"A", "AAAA", "CNAME"}
                 /\ rec["type"] = d["type"]
                 /\ rec["content"] = d["content"]
                 /\ Flag(rec) # Flag(d))
                => /\ Cardinality({i \in InRun(run) :
                                     trace[i].op = "update" /\ trace[i].id = rec["id"]}) = 1
                   /\ ~\E i \in InRun(run) :
                         trace[i].op = "create" /\ trace[i].key = <<pair[1], pair[2], 1>>
                   /\ ~DeleteIssued(rec["id"])

(***************************************************************************)
(* C10. TTL delta: a desired record, the only one of its name, whose type, *)
(* content and proxied flag match the only live record of the name but     *)
(* whose ttl differs: the run issues an update call for the live record.   *)
(***************************************************************************)
C10_Claim ==
    Done =>
        \A pair \in SolePairs :
            LET d == desired_state[pair[1]].records_to_manage[pair[2]].records[1]
                rec == pair[3]
            IN  (/\ rec["type"] = d["type"]
                 /\ rec["content"] = d["content"]
                 /\ Flag(rec) = Flag(d)
                 /\ GetEq(rec, d, "priority")
                 /\ rec["ttl"] # d["ttl"])
                => \E i \in InRun(run) : trace[i].op = "update" /\ trace[i].id = rec["id"]

(***************************************************************************)
(* Reading the history of any of the three programs.                       *)
(***************************************************************************)
\* the program the behaviour runs
Program ==
    CASE loc.pc \in {"sync_debug", "sync_list", "sync_record", "sync_delete", "returned"}
            -> "sync"
      [] loc.pc \in {"deploy", "deploy_write", "delete", "delete_records", "exit"}
            -> "deploy"
      [] loc.pc = "owners" -> "owners"
      [] OTHER -> "main"

WriteEvents == {i \in DOMAIN trace : trace[i].op \in Writes}

\* the write calls for `key` that the provider failed
FailedFor(key) == {i \in WriteEvents : trace[i].key = key /\ ~trace[i].ok}

\* the entries of the errors list of sync_domain_records about `key`
ErrorsFor(key) ==
    {j \in DOMAIN result.errors :
        result.errors[j].key = key /\ result.errors[j].at \in {"record", "delete"}}

\* a listing of this run failed
ListingFailed == \E i \in InRun(run) : trace[i].op = "list" /\ ~trace[i].ok

\* main: the live record is left over in zone number zi: at a managed name and
\* not claimed, or below the parent domain at a name without request file
LeftOver(zi, rec) ==
    \/ rec["name"] \in ManagedNames(zi) /\ ~Claimed(rec["id"])
    \/ Below(rec["name"], desired_state[zi].domain_name) /\ rec["name"] \notin DOMAIN files

\* main: every desired record of zone number zi has an outcome
ZoneProcessed(zi) ==
    \A ni \in 1..Len(desired_state[zi].records_to_manage) :
        \A di \in 1..Len(desired_state[zi].records_to_manage[ni].records) :
            OutcomesOf(<<zi, ni, di>>) # {}

\* a record without its provider id
WithoutId(rec) == [k \in DOMAIN rec \ {"id"} |-> rec[k]]

(***************************************************************************)
(* C6. Partial failure: a create, update or delete call that the provider  *)
(* fails does not stop the remaining operations of the run, and is         *)
(* recorded exactly once.  In sync_domain_records the errors list holds,   *)
(* for every key, as many entries as calls for the key failed, and at the  *)
(* return after a successful listing every record of the call has had its  *)
(* create or update call and every listed key that is not in new_map its   *)
(* delete call.  In main the flag overall_success is false exactly when a  *)
(* call of the run failed, and at the end every desired record of a listed *)
(* zone has its outcome and every left-over live record its delete call.   *)
(***************************************************************************)
C6_PartialFailure ==
    /\ Program = "sync" =>
         /\ \A i \in WriteEvents :
               Cardinality(ErrorsFor(trace[i].key)) = Cardinality(FailedFor(trace[i].key))
         /\ \A j \in DOMAIN result.errors :
               result.errors[j].at \in {"record", "delete"}
               => FailedFor(result.errors[j].key) # {}
         /\ (loc.pc = "returned" /\ ~ListingFailed
             /\ \E i \in DOMAIN trace : trace[i].op = "list")
            => /\ Cardinality({i \in WriteEvents : trace[i].op \in {"create", "update"}})
                    = Len(sync_args.records)
               /\ \A m \in DOMAIN existing_map :
                     existing_map[m].key \notin new_map_keys(sync_args)
                     => \E i \in WriteEvents :
                          /\ trace[i].op = "delete"
                          /\ trace[i].id = existing_map[m].value["id"]
    /\ Program = "main" =>
         /\ overall_success = (\A i \in InRun(run) : trace[i].ok)
         /\ Done =>
              \A zi \in 1..Len(desired_state) : Listed(zi) =>
                /\ ZoneProcessed(zi)
                /\ \A rec \in Range(live0[desired_state[zi].zone_id]) :
                      LeftOver(zi, rec) => DeleteIssued(rec["id"])

\* sync_domain_records returned after three creates of which the provider
\* failed the second: the third was attempted, the errors list has one entry
C6_Witness ==
    /\ loc.pc = "returned"
    /\ Len(trace) = 5
    /\ \A i \in 3..5 : trace[i].op = "create"
    /\ trace[3].ok /\ ~trace[4].ok /\ trace[5].ok
    /\ Len(result.errors) = 1
    /\ Len(result.created) = 2

(***************************************************************************)
(* C7. A failed listing is zone-fatal and free of side effects: after the  *)
(* listing of a zone failed, the run issues no create, update or delete    *)
(* call for that zone, the failure is reported (overall_success false in   *)
(* main, an entry in the errors list of sync_domain_records, the value     *)
(* False returned by the DNSDeployer), and main still processes the zones  *)
(* whose listing succeeded.                                                *)
(***************************************************************************)
C7_Claim ==
    /\ \A i \in DOMAIN trace : \A j \in DOMAIN trace :
          (/\ trace[i].op = "list" /\ ~trace[i].ok
           /\ trace[j].run = trace[i].run /\ trace[j].zone = trace[i].zone)
          => trace[j].op \notin Writes
    /\ (Program = "main" /\ Done /\ ListingFailed) => ~overall_success
    /\ (Program = "main" /\ Done) =>
          \A zi \in 1..Len(desired_state) : Listed(zi) => ZoneProcessed(zi)
    /\ (Program = "sync" /\ loc.pc = "returned" /\ ListingFailed) =>
          \E j \in DOMAIN result.errors : result.errors[j].at = "list"
    /\ (Program = "deploy" /\ loc.pc = "exit" /\ ListingFailed) => returned = FALSE

(***************************************************************************)
(* C8. A desired record that fully matches a live record (same type, name, *)
(* content and attributes), each the only one of its type and name, causes *)
(* no provider call: no create or update for the desired record, and no    *)
(* update or delete of the live record.                                    *)
(***************************************************************************)
\* sync_domain_records: record number i of the call and the live record rec
\* are the only ones of their key, and what would be sent equals rec
SyncSoleMatch(i, rec) ==
    LET key == sync_key(sync_args, i) IN
    /\ sync_data_of(sync_args.records[i], key[2]) = WithoutId(rec)
    /\ \A k \in 1..Len(sync_args.records) : sync_key(sync_args, k) = key => k = i
    /\ \A other \in Range(live0[zone_ids[sync_args.domain]]) :
          lower_name(other["name"]) = lower_name(rec["name"]) => other = rec

C8_Claim ==
    /\ (Program = "sync" /\ loc.pc = "returned") =>
          \A i \in 1..Len(sync_args.records) :
            \A rec \in Range(live0[zone_ids[sync_args.domain]]) :
              SyncSoleMatch(i, rec) =>
                ~\E e \in WriteEvents :
                    trace[e].id = rec["id"] \/ trace[e].key = sync_key(sync_args, i)
    /\ (Program = "main" /\ Done) =>
          \A pair \in SolePairs :
            desired_state[pair[1]].records_to_manage[pair[2]].records[1] = WithoutId(pair[3])
            => ~\E e \in WriteEvents :
                  /\ trace[e].run = run
                  /\ trace[e].id = pair[3]["id"] \/ trace[e].key = <<pair[1], pair[2], 1>>

(***************************************************************************)
(* C11. MX completeness.  As claimed: a desired MX record, the only one of *)
(* its name, against the only live record of the name, an MX record of the *)
(* same mail host but another priority (10 against 20): the run issues one *)
(* update call for the live record, no create and no delete.               *)
(***************************************************************************)
\* the desired record and the live record of a sole pair
DesiredOf(pair) == desired_state[pair[1]].records_to_manage[pair[2]].records[1]

\* both are MX records of the same mail host whose priorities differ
PriorityDelta(pair) ==
    LET d == DesiredOf(pair)
        rec == pair[3]
    IN  /\ d["type"] = "MX" /\ rec["type"] = "MX"
        /\ rec["content"] = d["content"]
        /\ "priority" \in DOMAIN d /\ "priority" \in DOMAIN rec
        /\ d["priority"] # rec["priority"]

UpdatesOf(id) == {i \in InRun(run) : trace[i].op = "update" /\ trace[i].id = id}
DeletesOf(id) == {i \in InRun(run) : trace[i].op = "delete" /\ trace[i].id = id}
CreatesFor(key) == {i \in InRun(run) : trace[i].op = "create" /\ trace[i].key = key}

C11_Original ==
    Done =>
        \A pair \in SolePairs :
            PriorityDelta(pair) =>
                /\ Cardinality(UpdatesOf(pair[3]["id"])) = 1
                /\ CreatesFor(<<pair[1], pair[2], 1>>) = {}
                /\ DeletesOf(pair[3]["id"]) = {}

\* C11 as amended: a priority difference is no content match: the run issues
\* one create call for the desired record and after it one delete call for the
\* live record, and no update call.
C11_CreateThenDelete ==
    Done =>
        \A pair \in SolePairs :
            PriorityDelta(pair) =>
                /\ UpdatesOf(pair[3]["id"]) = {}
                /\ Cardinality(CreatesFor(<<pair[1], pair[2], 1>>)) = 1
                /\ Cardinality(DeletesOf(pair[3]["id"])) = 1
                /\ \A i \in CreatesFor(<<pair[1], pair[2], 1>>) :
                      \A j \in DeletesOf(pair[3]["id"]) : i < j

\* a run ended for a desired MX record of priority 10 against a live MX record
\* of the same host and priority 20
C11_Witness ==
    /\ Done
    /\ \E pair \in SolePairs :
          /\ PriorityDelta(pair)
          /\ DesiredOf(pair)["priority"] = 10
          /\ pair[3]["priority"] = 20

(***************************************************************************)
(* C12. Trailing-dot insensitivity: a desired CNAME record, the only one   *)
(* of its name, against the only live record of the name, a CNAME record   *)
(* whose content is the desired content followed by one dot, or the        *)
(* reverse, with the same proxied flag: the desired record is classified   *)
(* unchanged against the live record and no provider call is issued for    *)
(* either.                                                                 *)
(***************************************************************************)
DotDelta(pair) ==
    LET d == DesiredOf(pair)
        rec == pair[3]
    IN  /\ d["type"] = "CNAME" /\ rec["type"] = "CNAME"
        /\ \/ rec["content"] = d["content"] \o <<".">>
           \/ d["content"] = rec["content"] \o <<".">>
        /\ Flag(rec) = Flag(d)

C12_TrailingDot ==
    Done =>
        \A pair \in SolePairs :
            DotDelta(pair) =>
                /\ \E i \in InRun(run) :
                      /\ trace[i].op = "unchanged"
                      /\ trace[i].id = pair[3]["id"]
                      /\ trace[i].key = <<pair[1], pair[2], 1>>
                /\ ~\E i \in InRun(run) :
                      /\ trace[i].op \in Writes
                      /\ trace[i].id = pair[3]["id"] \/ trace[i].key = <<pair[1], pair[2], 1>>

\* a run ended for the desired CNAME content "t" against the live content "t."
C12_Witness ==
    /\ Done
    /\ \E pair \in SolePairs :
          /\ DotDelta(pair)
          /\ DesiredOf(pair)["content"] = <<"t">>
          /\ pair[3]["content"] = <<"t", ".">>

(***************************************************************************)
(* C13. Content equality of CNAME and MX targets ignores letter case and a *)
(* trailing dot, every other type is compared literally: for a desired     *)
(* record, the only one of its name, against the only live record of the   *)
(* name, of the same type, the run issues no create call when the type is  *)
(* CNAME or MX (with equal priority) and the targets are equal up to case  *)
(* and trailing dots, and a create call when the type is another one and   *)
(* the contents differ.                                                    *)
(***************************************************************************)
\* a target without trailing dots, in lower case
Folded(content) == lower_name(rstrip(content))

C13_Claim ==
    Done =>
        \A pair \in SolePairs :
            LET d == DesiredOf(pair)
                rec == pair[3]
            IN  /\ (/\ d["type"] \in {"CNAME", "MX"} /\ rec["type"] = d["type"]
                    /\ Folded(rec["content"]) = Folded(d["content"])
                    /\ d["type"] = "MX" => GetEq(rec, d, "priority"))
                   => CreatesFor(<<pair[1], pair[2], 1>>) = {}
                /\ (/\ d["type"] \notin {"CNAME", "MX"} /\ rec["type"] = d["type"]
                    /\ rec["content"] # d["content"])
                   => CreatesFor(<<pair[1], pair[2], 1>>) # {}

(***************************************************************************)
(* C14. Greedy tie-break: within one run, a live record that an earlier    *)
(* desired record was matched against, as unchanged or as the target of an *)
(* update attempt, is not matched against, or updated for, a later desired *)
(* record.                                                                 *)
(***************************************************************************)
\* the events that match a desired record against a live record
Matchings == {i \in DOMAIN trace : trace[i].op \in {"unchanged", "update"}}

C14_Claim ==
    \A i \in Matchings : \A j \in Matchings :
        (i < j /\ trace[i].run = trace[j].run /\ trace[i].zone = trace[j].zone)
        => trace[i].id # trace[j].id

(***************************************************************************)
(* C15. Zone unavailable.  As claimed: the request files of a parent       *)
(* domain that is disabled or absent from the registry contribute no       *)
(* desired record, and the run issues a delete call for every live record  *)
(* at the name of such a file.                                             *)
(***************************************************************************)
\* the parent domain is disabled in the registry, or absent from it
ParentUnavailable(parent) ==
    ~\E k \in 1..Len(DomainsConfig) :
        DomainsConfig[k].name = parent /\ DomainsConfig[k].enabled

\* the request files of such parent domains
UnavailableNames == {f \in DOMAIN files : ParentUnavailable(SubSeq(f, 2, Len(f)))}

\* no desired record carries a name of such a file
NothingDesired(names) == \A d \in AllDesired : d["name"] \notin names

\* the zones of the registry entries of the parent domains of these names
RegistryZones(names) ==
    {DomainsConfig[i].zoneId : i \in {k \in 1..Len(DomainsConfig) :
        \E f \in names : DomainsConfig[k].name = SubSeq(f, 2, Len(f))}}

C15_Original ==
    Done =>
        /\ NothingDesired(UnavailableNames)
        /\ \A z \in Zones : \A rec \in Range(live0[z]) :
              rec["name"] \in UnavailableNames => DeleteIssued(rec["id"])

\* C15 as amended: such request files contribute no desired record, and the
\* run issues no provider call at all for the zone of a disabled parent
\* domain: it is not listed and its live records stay as they are.
C15_ZoneSkipped ==
    /\ NothingDesired(UnavailableNames)
    /\ \A z \in RegistryZones(UnavailableNames) :
          /\ \A i \in DOMAIN trace : trace[i].zone # z
          /\ live[z] = live0[z]

\* a run ended that processed zone ex, with a request file of the disabled
\* parent domain and a live record at its name
C15_Witness ==
    /\ Done
    /\ <<"d", "off">> \in UnavailableNames
    /\ <<"e", "no">> \in UnavailableNames
    /\ \E rec \in Range(live0["z3"]) : rec["name"] = <<"d", "off">>
    /\ \E i \in InRun(run) : trace[i].op = "list" /\ trace[i].zone = "z1"

(***************************************************************************)
(* C16. Document rejection.  As claimed: a request document that lacks     *)
(* owner or records, or that holds a record entry without type or value,   *)
(* contributes no record to the desired set.                               *)
(***************************************************************************)
\* the desired state of this run is compiled
Compiled == Program = "main" /\ loc.pc # "start"

WellFormed(entry) == {"type", "value"} \subseteq DOMAIN entry

Incomplete(doc) == ~({"owner", "records"} \subseteq DOMAIN doc)

\* the desired records that carry the name of the request file f
DesiredAt(f) == {d \in AllDesired : d["name"] = f}

\* the number of desired records compiled for the name f
DesiredCount(f) ==
    LET at == {<<zi, ni>> \in (1..Len(desired_state)) \X (1..Len(FileOrder)) :
                 /\ ni <= Len(desired_state[zi].records_to_manage)
                 /\ desired_state[zi].records_to_manage[ni].name = f}
    IN  IF at = {} THEN 0
        ELSE LET p == CHOOSE q \in at : TRUE
             IN  Len(desired_state[p[1]].records_to_manage[p[2]].records)

C16_Original ==
    Compiled =>
        \A f \in DOMAIN files :
            (\/ Incomplete(files[f])
             \/ \E k \in 1..Len(files[f].records) : ~WellFormed(files[f].records[k]))
            => DesiredAt(f) = {}

\* C16 as amended: a request document that lacks owner or records contributes
\* no record; a record entry without type or value is skipped alone, and the
\* well-formed entries of the same document are all compiled.
C16_EntrySkipped ==
    Compiled =>
        \A f \in DOMAIN files :
            IF Incomplete(files[f]) THEN DesiredCount(f) = 0
            ELSE ~ParentUnavailable(SubSeq(f, 2, Len(f))) =>
                   /\ DesiredCount(f)
                        = Cardinality({k \in 1..Len(files[f].records) :
                                         WellFormed(files[f].records[k])})
                   /\ \A k \in 1..Len(files[f].records) :
                         WellFormed(files[f].records[k]) =>
                           \E d \in DesiredAt(f) : d["content"] = files[f].records[k].value

\* the document holds an entry without value before a well-formed entry, and
\* the well-formed one is compiled
C16_Witness ==
    /\ Compiled
    /\ \E f \in DOMAIN files :
          /\ ~Incomplete(files[f])
          /\ Len(files[f].records) = 2
          /\ ~WellFormed(files[f].records[1])
          /\ WellFormed(files[f].records[2])
          /\ DesiredCount(f) = 1

(***************************************************************************)
(* C17. No NS record is desired or written: the desired state compiled by  *)
(* main holds no record of type NS, in any letter case, and no create or   *)
(* update call of main is made for a desired record of type NS.            *)
(***************************************************************************)
\* the desired record an outcome event of main is about
DesiredAtKey(key) == desired_state[key[1]].records_to_manage[key[2]].records[key[3]]

C17_Claim ==
    Program = "main" =>
        /\ \A d \in AllDesired : upper(d["type"]) # "NS"
        /\ \A i \in InRun(run) :
              trace[i].op \in {"create", "update"}
              => upper(DesiredAtKey(trace[i].key)["type"]) # "NS"

(***************************************************************************)
(* C18. Name resolution.  As claimed: the fully-qualified name of a        *)
(* desired record is recordName.subdomainLabel.parentDomain when the name  *)
(* field of the record is not "@", subdomainLabel.parentDomain when it is  *)
(* "@" (or absent); with the subdomain label "@" the names are             *)
(* recordName.parentDomain and parentDomain.  In sync_domain_records this  *)
(* is the name of the create or update call of each record, in main the    *)
(* name of each desired record compiled from a request file.               *)
(***************************************************************************)
Resolved(recordName, subdomainLabel, parentDomain) ==
    IF subdomainLabel = "@"
    THEN IF recordName = "@" THEN parentDomain ELSE <<recordName>> \o parentDomain
    ELSE IF recordName = "@" THEN <<subdomainLabel>> \o parentDomain
         ELSE <<recordName, subdomainLabel>> \o parentDomain

\* sync_domain_records: the create and update calls, in the order of the records
SyncCalls == SelectSeq(trace, LAMBDA e : e.op \in {"create", "update"})

SyncNamesResolved ==
    Program = "sync" =>
        \A k \in 1..Len(SyncCalls) :
            SyncCalls[k].name = Resolved(sync_args.records[k]["name"], sync_args.subdomain,
                                         sync_args.domain)

\* main: the request files that are compiled, and their well-formed entries
CompiledFiles ==
    {f \in DOMAIN files :
        ~Incomplete(files[f]) /\ ~ParentUnavailable(SubSeq(f, 2, Len(f)))}

C18_Original ==
    /\ SyncNamesResolved
    /\ Compiled =>
         \A f \in CompiledFiles : \A k \in 1..Len(files[f].records) :
            WellFormed(files[f].records[k]) =>
              \E d \in AllDesired :
                /\ d["content"] = files[f].records[k].value
                /\ d["name"] = Resolved(Get(files[f].records[k], "name", "@"), f[1],
                                        SubSeq(f, 2, Len(f)))

\* C18 as amended: sync_domain_records resolves the names as claimed; main
\* gives every record of a request file the name subdomainLabel.parentDomain
\* of the file name, whatever the name field of the entry, the label "@"
\* included.
C18_Names ==
    /\ SyncNamesResolved
    /\ Compiled =>
         /\ \A f \in CompiledFiles : \A k \in 1..Len(files[f].records) :
               WellFormed(files[f].records[k]) =>
                 \E d \in AllDesired : d["content"] = files[f].records[k].value /\ d["name"] = f
         /\ \A d \in AllDesired : d["name"] \in CompiledFiles

\* sync_domain_records returned for the subdomain "@" after the calls for a
\* record named "w" and a record named "@"
C18_Witness ==
    /\ loc.pc = "returned"
    /\ sync_args.subdomain = "@"
    /\ \E k \in 1..Len(SyncCalls) : SyncCalls[k].name = <<"w", "ex">>
    /\ \E k \in 1..Len(SyncCalls) : SyncCalls[k].name = <<"ex">>

(***************************************************************************)
(* C19. The proxied field reaches the provider only for the types A, AAAA  *)
(* and CNAME: the data of every create or update call for a record of      *)
(* another type holds no proxied field.                                    *)
(***************************************************************************)
Proxiable == {"A", "AAAA", "CNAME"}

ProxiedOnlyIfProxiable(data) == "proxied" \in DOMAIN data => data["type"] \in Proxiable

C19_Claim ==
    /\ Program = "main" =>
          \A i \in InRun(run) :
              trace[i].op \in {"create", "update"}
              => ProxiedOnlyIfProxiable(DesiredAtKey(trace[i].key))
    /\ Program = "sync" =>
          \A k \in 1..Len(SyncCalls) :
              ProxiedOnlyIfProxiable(sync_data_of(sync_args.records[k], SyncCalls[k].name))
    /\ Program = "deploy" =>
          \A i \in DOMAIN trace :
              trace[i].op \in {"create", "update"}
              => ProxiedOnlyIfProxiable(deploy_record_data(request_data.record, trace[i].name))

(***************************************************************************)
(* C20. Complete listing: right after a listing of the run succeeded, the  *)
(* live record set the program reconciles against holds every record of    *)
(* the zone, whatever the number of result pages.  In main that set is     *)
(* cf_records_list; in sync_domain_records it is existing_map, which holds *)
(* the records of the requested names, one per key type:name.              *)
(***************************************************************************)
JustListed ==
    /\ trace # << >>
    /\ trace[Len(trace)].op = "list"
    /\ trace[Len(trace)].ok
    /\ trace[Len(trace)].run = run

\* sync_domain_records: the requested names, and the live records that no
\* other live record shares its key with
RequestedNames ==
    {lower_name(sync_key(sync_args, i)[2]) : i \in 1..Len(sync_args.records)}

KeyAlone(recs, rec) ==
    \A other \in Range(recs) :
        (other["type"] = rec["type"] /\ other["name"] = rec["name"]) => other = rec

C20_Claim ==
    /\ (Program = "main" /\ JustListed) =>
          cf_records_list = live[trace[Len(trace)].zone]
    /\ (Program = "sync" /\ JustListed) =>
          LET recs == live[trace[Len(trace)].zone] IN
          \A rec \in Range(recs) :
              (lower_name(rec["name"]) \in RequestedNames /\ KeyAlone(recs, rec))
              => \E i \in 1..Len(existing_map) : existing_map[i].value = rec

(***************************************************************************)
(* C21. Document isolation in the compiler: a request document that is     *)
(* invalid (failed to load, no owner or no records, a file name of one     *)
(* label) or whose parent domain is unknown or disabled is skipped, and    *)
(* the desired state compiled from the directory is the one compiled from  *)
(* the directory without that document.                                    *)
(***************************************************************************)
\* the request files the compiler skips
SkippedFiles ==
    {f \in DOMAIN files :
        \/ Incomplete(files[f])
        \/ Len(f) < 2
        \/ ParentUnavailable(SubSeq(f, 2, Len(f)))}

\* the directory without the file f
WithoutFile(dir, f) == [g \in DOMAIN dir \ {f} |-> dir[g]]

C21_Isolation ==
    Compiled =>
        \A f \in SkippedFiles :
            /\ DesiredAt(f) = {}
            /\ f \notin UNION {ManagedNames(zi) : zi \in 1..Len(desired_state)}
            /\ desired_state = compile_desired(WithoutFile(files, f))

\* a directory with a document that failed to load, a file name of one label
\* and a valid document is compiled, the valid document giving a desired record
C21_Witness ==
    /\ Compiled
    /\ \E f \in SkippedFiles : files[f] = << >>
    /\ \E f \in SkippedFiles : Len(f) < 2
    /\ AllDesired # {}

(***************************************************************************)
(* C22. deploy_request of a complete request on an enabled domain issues   *)
(* exactly one provider write after the listing: a create call when the    *)
(* listing is empty, an update call on the id of the first listed record   *)
(* when it is not.  It returns True and saves the local record file        *)
(* exactly when that call succeeded, and returns False without saving      *)
(* otherwise.                                                              *)
(***************************************************************************)
\* the request file is complete and its domain is enabled with a zone id
Deployable ==
    /\ {"domain", "subdomain", "record"} \subseteq DOMAIN request_data
    /\ \E d \in DOMAIN DeployConfig :
          /\ d = request_data.domain
          /\ DeployConfig[d].enabled
          /\ "cloudflare_zone_id" \in DOMAIN DeployConfig[d]

\* the local record files after the request file was saved
MirrorSaved(saved) ==
    LET f == <<request_data.domain, request_data.subdomain>> IN
    [g \in DOMAIN saved \cup {f} |-> IF g = f THEN request_data ELSE saved[g]]

C22_OneWrite ==
    [][/\ (loc.pc = "deploy" /\ Deployable) =>
             /\ loc'.pc = "deploy_write"
             /\ Len(trace') = Len(trace) + 1
             /\ trace'[Len(trace')].op = "list"
             /\ UNCHANGED <<live, domain_files, returned>>
       /\ loc.pc = "deploy_write" =>
             /\ loc'.pc = "exit"
             /\ Len(trace') = Len(trace) + 1
             /\ LET call == trace'[Len(trace')] IN
                /\ IF existing_records = << >>
                   THEN call.op = "create"
                   ELSE call.op = "update" /\ call.id = existing_records[1]["id"]
                /\ returned' = call.ok
                /\ domain_files' = IF call.ok THEN MirrorSaved(domain_files)
                                   ELSE domain_files]_vars

\* deploy_request updated the first listed record and saved the request file
C22_Witness ==
    /\ loc.pc = "exit"
    /\ Deployable
    /\ \E i \in DOMAIN trace : trace[i].op = "update" /\ trace[i].ok
    /\ returned = TRUE
    /\ <<request_data.domain, request_data.subdomain>> \in DOMAIN domain_files
    /\ domain_files[<<request_data.domain, request_data.subdomain>>] = request_data

(***************************************************************************)
(* C23. deploy_request for a domain that is absent from the domain         *)
(* configuration, not enabled, or without a zone id returns False and      *)
(* makes no provider call (no list, create or update) and no change to the *)
(* local record files.                                                     *)
(***************************************************************************)
\* the domain of the request file cannot be deployed to
DomainRefused ==
    /\ "domain" \in DOMAIN request_data
    /\ \/ request_data.domain \notin DOMAIN DeployConfig
       \/ ~DeployConfig[request_data.domain].enabled
       \/ "cloudflare_zone_id" \notin DOMAIN DeployConfig[request_data.domain]

C23_Refused ==
    [][(loc.pc = "deploy" /\ DomainRefused) =>
          /\ loc'.pc = "exit"
          /\ returned' = FALSE
          /\ UNCHANGED <<trace, live, domain_files>>]_vars

\* deploy_request has returned for a domain without zone id, the record file
\* of an earlier deployment still in place
C23_Witness ==
    /\ loc.pc = "exit"
    /\ DomainRefused
    /\ request_data.domain = <<"nz">>
    /\ returned = FALSE
    /\ trace = << >>
    /\ domain_files # << >>

(***************************************************************************)
(* C24. delete_request issues one delete call for every record listed at   *)
(* subdomain.domain, continuing after a failed delete; it returns True     *)
(* exactly when every delete succeeded (or no record was listed), and it   *)
(* removes the local record file only when records were listed and every   *)
(* delete succeeded.                                                       *)
(***************************************************************************)
\* the request file names a subdomain of a configured domain with a zone id
Deletable ==
    /\ {"domain", "subdomain"} \subseteq DOMAIN request_data
    /\ request_data.domain \in DOMAIN DeployConfig
    /\ "cloudflare_zone_id" \in DOMAIN DeployConfig[request_data.domain]

\* the delete calls of a history
DeleteCalls(history) == SelectSeq(history, LAMBDA e : e.op = "delete")

\* the local record files without the one of the request
MirrorRemoved(saved) ==
    [g \in DOMAIN saved \ {<<request_data.domain, request_data.subdomain>>} |-> saved[g]]

C24_DeleteAll ==
    [][(loc.pc \in {"delete", "delete_records"} /\ Deletable) =>
          IF loc'.pc = "exit"
          THEN LET calls == DeleteCalls(trace')
                   every == \A k \in 1..Len(calls) : calls[k].ok
               IN  /\ Len(calls) = Len(existing_records')
                   /\ \A k \in 1..Len(calls) : calls[k].id = existing_records'[k]["id"]
                   /\ returned' = every
                   /\ domain_files' = IF existing_records' # << >> /\ every
                                      THEN MirrorRemoved(domain_files)
                                      ELSE domain_files
          ELSE UNCHANGED domain_files]_vars

\* delete_request has returned False after two delete calls, the first of
\* which failed, and the local record file is still there
C24_Witness ==
    /\ loc.pc = "exit"
    /\ Len(DeleteCalls(trace)) = 2
    /\ ~DeleteCalls(trace)[1].ok
    /\ DeleteCalls(trace)[2].ok
    /\ returned = FALSE
    /\ domain_files # << >>

(***************************************************************************)
(* C25. validate_request returns valid = False with an error for every     *)
(* request whose domain is missing from the domain configuration or is     *)
(* configured but not enabled, and in every result valid is True exactly   *)
(* when the errors list is empty.                                          *)
(***************************************************************************)
\* the owners whose request file has been validated
Validated == {o \in DOMAIN owners : owners[o].pc # "validate"}

\* the request file of owner o names a domain that is not configured or not
\* enabled
DomainNotOpen(o) ==
    /\ owners[o].request_file.readable
    /\ "domain" \in DOMAIN owners[o].request_file.data
    /\ LET domain == owners[o].request_file.data.domain IN
       \/ domain \notin DOMAIN DeployConfig
       \/ ~DeployConfig[domain].enabled

C25_DomainChecked ==
    \A o \in Validated :
        /\ owners[o].validation.valid = (owners[o].validation.errors = << >>)
        /\ DomainNotOpen(o) =>
              /\ ~owners[o].validation.valid
              /\ owners[o].validation.errors # << >>

\* a request for the disabled domain was found invalid for that reason alone,
\* and the request of the other owner was found valid
C25_Witness ==
    /\ Validated = Owners
    /\ DomainNotOpen("u")
    /\ owners["u"].validation = [valid |-> FALSE, errors |-> <<"domain_disabled">>]
    /\ owners["v"].validation = [valid |-> TRUE, errors |-> << >>]

(***************************************************************************)
(* C26. A failed update never costs the record: in a run of main, after    *)
(* the update call on a live record has failed, the run issues no delete   *)
(* call for that record and matches no later desired record against it.    *)
(***************************************************************************)
C26_Claim ==
    Program = "main" =>
        \A i \in DOMAIN trace : \A j \in DOMAIN trace :
            (/\ i < j
             /\ trace[i].op = "update"
             /\ ~trace[i].ok
             /\ trace[j].run = trace[i].run
             /\ trace[j].zone = trace[i].zone
             /\ trace[j].id = trace[i].id)
            => trace[j].op \notin {"delete", "update", "unchanged"}

(***************************************************************************)
(* C27. Scope of writes in main: no create, update or delete call of a     *)
(* zone's run targets a record whose name is the parent domain itself or   *)
(* is no subdomain of the parent domain, and the live records with such    *)
(* names are the same before and after the run.                            *)
(***************************************************************************)
\* the parent domain the registry gives for the zone
ParentOfZone(zone) ==
    DomainsConfig[CHOOSE k \in 1..Len(DomainsConfig) : DomainsConfig[k].zoneId = zone].name

\* the records of the zone that lie outside the subdomains of its parent domain
Outside(recs, zone) ==
    SelectSeq(recs, LAMBDA rec : ~Below(rec["name"], ParentOfZone(zone)))

C27_Scope ==
    Program = "main" =>
        /\ \A i \in WriteEvents : Below(trace[i].name, ParentOfZone(trace[i].zone))
        /\ \A z \in Zones : Outside(live[z], z) = Outside(live0[z], z)

\* a run ended that deleted the records of a subdomain without request file,
\* with live records at the parent domain and at a foreign name in the zone
C27_Witness ==
    /\ Done
    /\ Len(Outside(live0["z1"], "z1")) = 2
    /\ \E rec \in Range(live0["z1"]) : ~EndsWithDot(rec["name"], <<"ex">>) /\ Len(rec["name"]) = 2
    /\ \E i \in WriteEvents : trace[i].op = "delete" /\ trace[i].key[2] = 0 /\ trace[i].ok

(***************************************************************************)
(* C28. Live records of a skipped document are frozen: when the request    *)
(* file of a subdomain exists but is skipped (it failed to load, or has no *)
(* owner or no records), the run of main issues no create, update or       *)
(* delete call at that subdomain's name and its live records stay as they  *)
(* were, also when another document keeps the zone in the run.             *)
(***************************************************************************)
\* the request files with a skipped document
SkippedDocuments == {f \in DOMAIN files : Len(f) >= 2 /\ Incomplete(files[f])}

\* the records at the name f
At(recs, f) == SelectSeq(recs, LAMBDA rec : rec["name"] = f)

C28_Frozen ==
    Program = "main" =>
        \A f \in SkippedDocuments :
            /\ \A i \in WriteEvents : trace[i].name # f
            /\ \A z \in Zones : At(live[z], f) = At(live0[z], f)

\* a run ended that listed the zone and wrote for the valid document b.ex,
\* while a.ex has a skipped document and a live record
C28_Witness ==
    /\ Done
    /\ <<"a", "ex">> \in SkippedDocuments
    /\ At(live0["z1"], <<"a", "ex">>) # << >>
    /\ \E i \in WriteEvents : trace[i].name = <<"b", "ex">> /\ trace[i].ok

(***************************************************************************)
(* C29. Deletion scope of sync_domain_records: a live record is deleted    *)
(* only if its name equals the resolved name of one of the records passed  *)
(* to the call and no record of the call has its key type:name; a live     *)
(* record at a name that no record of the call resolves to is never        *)
(* deleted or updated and stays as it was.                                 *)
(***************************************************************************)
\* the resolved names of the records of the call
ResolvedNames == {sync_key(sync_args, i)[2] : i \in 1..Len(sync_args.records)}

C29_Claim ==
    Program = "sync" =>
        LET zone == zone_ids[sync_args.domain] IN
        /\ \A i \in DOMAIN trace :
              trace[i].op = "delete" =>
                 LET rec == Live0(zone, trace[i].id) IN
                 /\ rec["name"] \in ResolvedNames
                 /\ <<rec["type"], rec["name"]>> \notin new_map_keys(sync_args)
        /\ \A i \in DOMAIN trace :
              trace[i].op = "update" => Live0(zone, trace[i].id)["name"] \in ResolvedNames
        /\ \A rec \in Range(live0[zone]) :
              rec["name"] \notin ResolvedNames => rec \in Range(live[zone])

(***************************************************************************)
(* C30. Subdomain exclusivity under interleaving: once deploy_request has  *)
(* succeeded for subdomain.domain on behalf of one owner, no validate and  *)
(* deploy of another owner, however their steps interleave, replaces the   *)
(* provider record of that subdomain or overwrites its local record file:  *)
(* the successful writes at one name all belong to one owner.              *)
(***************************************************************************)
\* the create and update calls of the pipelines that succeeded
Deployed ==
    {i \in DOMAIN trace : trace[i].op \in {"create", "update"} /\ trace[i].ok}

C30_Claim ==
    Program = "owners" =>
        \A i \in Deployed : \A j \in Deployed :
            trace[i].name = trace[j].name => trace[i].key[1] = trace[j].key[1]

====
